---- MODULE Spec2Model ----
(***************************************************************************)
(* Media analysis pipeline of the summarisation backend:                   *)
(*   - the POST /summarize route (server.js),                              *)
(*   - extractAudio / extractKeyFrames (videoProcessor.js),                *)
(*   - cleanupFiles (cleanup.js),                                          *)
(*   - summarizeVideoContent / summarizeAudioContent (groqProcessor.js,    *)
(*     in its two variants: "multi" = Video-Multi, "docs" = Docs).         *)
(*                                                                         *)
(* Time is counted in ticks of 0.05 s, so that 0.1 s, 0.5 s and the half   *)
(* of a duration given in tenths of a second are all integers.             *)
(* Strings are sequences of tokens; a token is a piece of text that the    *)
(* code never looks inside (" " stands for any run of white space).        *)
(***************************************************************************)
EXTENDS Integers, Sequences, FiniteSets, TLC

\* ------------------------------------------------------------------ bounds
MaxSmallDur == 6          \* durations 0.1 s .. MaxSmallDur * 0.1 s are enumerated
MaxFramesIn == 11         \* longest frame list handed to summarizeVideoContent directly
MaxRouteFrames == 2       \* largest maxFrames configured in the route specification
MaxPaths == 3             \* longest list of paths handed to cleanupFiles directly
MaxCleanupCalls == 2      \* calls of cleanupFiles with the same list
MaxClock == 2             \* values of Date.now() while two runs are served
MaxRunFrames == 2         \* frames planned for one of two concurrent runs
MaxRequests == 2          \* requests posted, and calls refused, by the client's hook

\* --------------------------------------------------------------- constants
Tenth == 2                \* 0.1 s in ticks
Half == 10                \* 0.5 s in ticks
VISION_MODEL_IMAGE_LIMIT == 5
DEFAULT_SECONDS_PER_FRAME == 10
DEFAULT_MAX_FRAMES == 30

VISION_MODEL == "meta-llama/llama-4-scout-17b-16e-instruct"
TEXT_MODEL == "llama-3.3-70b-versatile"

\* ----------------------------------------------------------------- helpers
\* n seconds in ticks
Sec(n) == 20 * n
Min(a, b) == IF a <= b THEN a ELSE b
Max(a, b) == IF a >= b THEN a ELSE b
CeilDiv(a, b) == (a + b - 1) \div b

Digit == <<"0", "1", "2", "3", "4", "5", "6", "7", "8", "9">>

RECURSIVE NumStr(_)
\* `${n}` for a non-negative integer: its decimal digits
NumStr(n) == IF n < 10 THEN <<Digit[n + 1]>>
             ELSE NumStr(n \div 10) \o <<Digit[(n % 10) + 1]>>

RECURSIVE TrimStart(_)
TrimStart(t) == IF t # <<>> /\ Head(t) = " " THEN TrimStart(Tail(t)) ELSE t

RECURSIVE TrimEnd(_)
TrimEnd(t) == IF t # <<>> /\ t[Len(t)] = " " THEN TrimEnd(SubSeq(t, 1, Len(t) - 1)) ELSE t

\* String.prototype.trim
Trim(t) == TrimEnd(TrimStart(t))

\* String.prototype.startsWith
StartsWith(t, p) == Len(t) >= Len(p) /\ SubSeq(t, 1, Len(p)) = p

\* String.prototype.includes
Includes(t, p) == \E k \in 0..(Len(t) - Len(p)) : SubSeq(t, k + 1, k + Len(p)) = p

\* Array.prototype.slice(start, end) with 0-based, end-exclusive indices
Slice(s, start, end) == SubSeq(s, start + 1, Min(end, Len(s)))

RECURSIVE SelectSeqOf(_, _, _)
SelectSeqOf(s, keep, k) ==
    IF k > Len(s) THEN <<>>
    ELSE (IF keep[k] THEN <<s[k]>> ELSE <<>>) \o SelectSeqOf(s, keep, k + 1)

\* ------------------------------------------------------------------- state
VARIABLES
    \* POST /summarize
    pc,                         \* position of the route handler
    reqFile,                    \* whether the request carries a file (req.file)
    mimeType,                   \* req.file.mimetype, classified
    filesToCleanup,
    audioPathForTranscription,
    tempAudioPath,
    isVideo,
    base64Frames,
    transcriptText,
    summaryResult,
    caught,                     \* the error caught by the route's catch block
    responses,                  \* what was sent on res, in order
    cleanupCalls,               \* number of calls of cleanupFiles
    trace,                      \* external operations started by the run, in order
    frameExtractionConfig,
    \* file system and the deletions that nobody awaits
    files,
    bg,
    \* extractKeyFrames
    k_pc,
    duration,                   \* metadata.format.duration when it is a number
    durationType,               \* typeof metadata.format.duration
    timemarks,
    k_result,
    k_i,                        \* frames the 'end' handler's loop has been through
    \* groqProcessor.js
    variant,
    s_pc,
    s_transcript,
    s_frames,
    s_i,
    partialAnalyses,
    calls,                      \* requests sent to the model API, in order
    inflight,                   \* indices in calls that have not settled yet
    replies,                    \* what the model API answered, reply k to calls[k]
    audioInvocations,           \* entries into the transcript-only function
    s_result,
    \* cleanupFiles
    c_pc,                       \* position of a call of cleanupFiles
    c_paths,                    \* its argument filePaths
    c_before,                   \* the file system when it was called
    c_attempted,                \* indices of filePaths whose fs.unlink was started
    c_pending,                  \* indices whose promise has not settled yet
    c_errors,                   \* indices whose failure was logged by .catch
    c_round,                    \* number of calls that have returned
    c_first,                    \* the file system as the first call left it
    \* two requests served concurrently by the same process
    t_now,                      \* Date.now()
    t_upload,                   \* per run: the path multer stored the upload under
    t_pc,                       \* per run: position of the route handler
    t_registered,               \* per run: filesToCleanup
    t_dir,                      \* per run: frameDir of extractKeyFrames
    t_count,                    \* per run: actualFrameCount, the frames planned
    t_i,                        \* per run: frames the 'end' handler's loop has been through
    t_fs,                       \* the uploads directory, shared by the runs
    t_made,                     \* <<path, run>>: the run created the path
    t_ops,                      \* <<run, operation, path>>: the run read, wrote or deleted the path
    t_bg,                       \* <<run, call, path>>: deletions started and not settled
    \* useSummarizationApi (the client's hook)
    loadingState,               \* 'idle' | 'uploading' | 'processing' | 'cancelling'
    uploadProgress,
    result,
    error,                      \* the message; <<>> stands for null
    cancelTokenSourceRef,       \* the request the current cancel token belongs to; 0 for null
    renderedLoadingState,       \* loadingState as of the last render: what the callbacks close over
    requests,                   \* the requests posted by the hook, in order
    warnings                    \* number of console.warn calls of submitRequest

routeVars == <<pc, reqFile, mimeType, filesToCleanup, audioPathForTranscription, tempAudioPath,
               isVideo, base64Frames, transcriptText, summaryResult, caught, responses,
               cleanupCalls, frameExtractionConfig>>
fsVars == <<files, bg>>
kfVars == <<k_pc, duration, durationType, timemarks, k_result, k_i>>
groqVars == <<variant, s_pc, s_transcript, s_frames, s_i, partialAnalyses, calls,
              inflight, replies, audioInvocations, s_result>>
cfVars == <<c_pc, c_paths, c_before, c_attempted, c_pending, c_errors, c_round, c_first>>
twoVars == <<t_now, t_upload, t_pc, t_registered, t_dir, t_count, t_i, t_fs, t_made, t_ops, t_bg>>
clientVars == <<loadingState, uploadProgress, result, error, cancelTokenSourceRef,
                renderedLoadingState, requests, warnings>>
oneRunVars == <<routeVars, trace, fsVars, kfVars, groqVars, cfVars>>
serverVars == <<oneRunVars, twoVars>>
vars == <<routeVars, trace, fsVars, kfVars, groqVars, cfVars, twoVars, clientVars>>

\* ------------------------------------------------------------------- paths
NoPath == <<"null", 0>>
originalFilePath == <<"upload", 0>>
\* extractAudio: `${basename(videoPath)}.mp3` next to the video
audioPath == <<"upload.mp3", 0>>
\* extractKeyFrames: uploads/frames-<basename>-<now>
frameDir == <<"frames-upload", 0>>
\* frame-%i.jpg inside frameDir
framePath(i) == <<"frames-upload/frame.jpg", i>>

IsFrameFile(p) == p[1] = "frames-upload/frame.jpg"

\* ---------------------------------------------------------------- cleanup
\* fs.unlink(p): removes a file; fails on a missing path and on a directory
UnlinkOk(fsys, p) == p \in fsys /\ p # frameDir
\* fs.rmdir(d): removes an empty directory only
RmdirOk(fsys) == frameDir \in fsys /\ ~ \E p \in fsys : IsFrameFile(p)

\* cleanupFiles(filePaths): every non-null path is unlinked, a failing unlink
\* is logged and changes nothing; the result is the file system afterwards
cleanupFiles(fsys, filePaths) ==
    fsys \ { filePaths[k] : k \in { j \in 1..Len(filePaths) :
                                     /\ filePaths[j] # NoPath
                                     /\ UnlinkOk(fsys, filePaths[j]) } }

\* number of unlink attempts of cleanupFiles that fail: every attempt but
\* the one that removes a file (a path listed twice is removed once)
cleanupFailures(fsys, filePaths) ==
    Cardinality({ j \in 1..Len(filePaths) : filePaths[j] # NoPath })
      - Cardinality(fsys \ cleanupFiles(fsys, filePaths))

\* the deletions extractKeyFrames starts without its caller waiting for them
BgRm == <<"rm", 0>>                  \* fs.rm(frameDir, {recursive, force})
BgRmdir == <<"rmdir", 0>>            \* fs.rmdir(frameDir)
BgUnlink(i) == <<"unlink", i>>       \* fs.unlink(framePaths[i - 1])

\* fs.rm(frameDir, {recursive, force})
RmRecursive(fsys) == { p \in fsys : p # frameDir /\ ~ IsFrameFile(p) }

\* fs.rmdir(frameDir), its failure swallowed by the caller
RmdirQuiet(fsys) == IF RmdirOk(fsys) THEN fsys \ {frameDir} ELSE fsys

\* ------------------------------------------------- frame sampling planner
\* let calculatedFrameCount = Math.floor(duration / secondsPerFrame), then
\* raised to 1 for a duration above 0.1 s
calculatedFrameCount(d, spf) ==
    LET c == d \div spf
    IN  IF c <= 0 /\ d > Tenth THEN 1
        ELSE IF c <= 0 THEN 0
        ELSE c

\* variant of cappedFrameCount that forgets the cap of maxFrames
uncappedFrameCount(d, spf, mf) == calculatedFrameCount(d, spf)

\* let actualFrameCount = Math.min(calculatedFrameCount, maxFrames)
cappedFrameCount(d, spf, mf) == Min(calculatedFrameCount(d, spf), mf)

\* variant of timemarksLoop whose counter starts at 0
timemarksFromZero(d, spf, n, i) == [k \in 1..n |-> (k - 1) * spf]

RECURSIVE timemarksUnclamped(_, _, _, _)
\* variant of timemarksLoop that pushes the timestamp as computed
timemarksUnclamped(d, spf, n, i) ==
    IF i > n THEN <<>>
    ELSE IF i * spf <= d + Half
         THEN <<i * spf>> \o timemarksUnclamped(d, spf, n, i + 1)
         ELSE <<>>

RECURSIVE timemarksDiscardEarly(_, _, _, _)
\* variant of timemarksLoop that discards the candidates beyond duration - 0.5
timemarksDiscardEarly(d, spf, n, i) ==
    IF i > n THEN <<>>
    ELSE IF i * spf <= d - Half
         THEN <<Min(i * spf, d)>> \o timemarksDiscardEarly(d, spf, n, i + 1)
         ELSE <<>>

RECURSIVE timemarksNoTolerance(_, _, _, _)
\* variant of timemarksLoop that discards every candidate beyond the duration
timemarksNoTolerance(d, spf, n, i) ==
    IF i > n THEN <<>>
    ELSE IF i * spf <= d
         THEN <<Min(i * spf, d)>> \o timemarksNoTolerance(d, spf, n, i + 1)
         ELSE <<>>

RECURSIVE timemarksLoop(_, _, _, _)
\* for (i = 1; i <= actualFrameCount; i++) { push or break }
timemarksLoop(d, spf, n, i) ==
    IF i > n THEN <<>>
    ELSE IF i * spf <= d + Half
         THEN <<Min(i * spf, d)>> \o timemarksLoop(d, spf, n, i + 1)
         ELSE <<>>

\* variant of midPointFallback that takes the single frame at 0.1 s
midPointAtStart(d, marks) ==
    IF Len(marks) = 0 /\ d > Tenth THEN <<Tenth>> ELSE marks

\* variant of midPointFallback that leaves an empty list of timemarks empty
noMidPointFallback(d, marks) == marks

\* the single frame near the middle of a video shorter than the interval
midPointFallback(d, marks) ==
    IF Len(marks) = 0 /\ d > Tenth THEN <<Max(Tenth, d \div 2)>> ELSE marks

\* the timemarks handed to ffmpeg; empty when extraction is skipped
planTimemarks(d, spf, mf) ==
    IF cappedFrameCount(d, spf, mf) <= 0 THEN <<>>
    ELSE midPointFallback(d, timemarksLoop(d, spf, cappedFrameCount(d, spf, mf), 1))

\* ------------------------------------------------------- extractKeyFrames
\* the numbers ffprobe reports as duration: zero, a negative one, short ones
\* (0.15 s, whose half lies below 0.1 s, among them), and durations of up to
\* 95 s, so that a plan at the default interval holds at most 9 timestamps
Durations ==
    {0 - Tenth, 0, Tenth + 1} \cup { 2 * k : k \in 1..MaxSmallDur }
      \cup { Sec(5), Sec(10) - 6, Sec(12), Sec(95) }

\* typeof metadata.format.duration: a number; "undefined" when the metadata
\* hold no duration; "string" for the text 'N/A', which ffprobe prints for a
\* stream whose duration it cannot tell
DurationTypes == {"number", "undefined", "string"}

\* await fs.mkdir(frameDir)
KfMkdir ==
    /\ k_pc = "called"
    /\ files' = files \cup {frameDir}
    /\ k_pc' = "probing"
    /\ trace' = Append(trace, "ffprobe")
    /\ UNCHANGED <<bg, duration, durationType, timemarks, k_result, k_i, routeVars, groqVars>>
    /\ UNCHANGED cfVars
    /\ UNCHANGED twoVars
    /\ UNCHANGED clientVars

\* ffprobe callback with err: frameDir removal is started, not awaited
KfProbeError ==
    /\ k_pc = "probing"
    /\ bg' = bg \cup {BgRm}
    /\ k_pc' = "rejected"
    /\ UNCHANGED <<files, duration, durationType, timemarks, k_result, k_i, trace, routeVars, groqVars>>
    /\ UNCHANGED cfVars
    /\ UNCHANGED twoVars
    /\ UNCHANGED clientVars

\* variant of KfProbe that does not test the duration and takes a single
\* frame at 0.1 s when the plan is empty
KfProbeAlwaysOneFrame ==
    /\ k_pc = "probing"
    /\ \E type \in DurationTypes :
         /\ durationType' = type
         /\ \E d \in (IF type = "number" THEN Durations ELSE {duration}) :
              LET marks == IF type = "number"
                           THEN planTimemarks(d, frameExtractionConfig.secondsPerFrame,
                                              frameExtractionConfig.maxFrames)
                           ELSE <<>>
              IN  /\ duration' = d
                  /\ timemarks' = IF marks = <<>> THEN <<Tenth>> ELSE marks
                  /\ k_pc' = "shooting"
                  /\ trace' = Append(trace, "screenshots")
                  /\ UNCHANGED <<bg, k_result, k_i>>
    /\ UNCHANGED <<files, routeVars, groqVars>>
    /\ UNCHANGED cfVars
    /\ UNCHANGED twoVars
    /\ UNCHANGED clientVars

\* ffprobe callback with metadata.
\* No duration (!duration, which also holds for 0), or a number <= 0: fs.rm
\* of frameDir is started, not awaited, and the promise rejects.
\* The text 'N/A': it is neither falsy nor <= 0, so the test of line 84
\* lets it pass; every number computed from it is NaN and every comparison
\* false, so no count is raised, the loop pushes no timestamp and no branch
\* returns; duration.toFixed(1) of line 123 then throws a TypeError inside
\* the callback: nothing is removed, the promise is neither resolved nor
\* rejected, and the caller waits for it for good.
\* A number > 0: the plan is computed; with an empty plan fs.rmdir is started
\* and the promise resolves with no frame, else ffmpeg is started.
KfProbe ==
    /\ k_pc = "probing"
    /\ \/ /\ durationType' = "undefined"
          /\ bg' = bg \cup {BgRm}
          /\ k_pc' = "rejected"
          /\ UNCHANGED <<duration, timemarks, k_result, k_i, trace>>
       \/ /\ durationType' = "string"
          /\ timemarks' = <<>>
          /\ k_pc' = "thrown"
          /\ UNCHANGED <<bg, duration, k_result, k_i, trace>>
       \/ \E d \in Durations :
            /\ durationType' = "number"
            /\ duration' = d
            /\ IF d <= 0
               THEN /\ bg' = bg \cup {BgRm}
                    /\ k_pc' = "rejected"
                    /\ UNCHANGED <<timemarks, k_result, k_i, trace>>
               ELSE LET marks == planTimemarks(d, frameExtractionConfig.secondsPerFrame,
                                               frameExtractionConfig.maxFrames)
                    IN  /\ timemarks' = marks
                        /\ IF Len(marks) = 0
                           THEN /\ bg' = bg \cup {BgRmdir}
                                /\ k_result' = <<>>
                                /\ k_pc' = "resolved"
                                /\ UNCHANGED <<trace, k_i>>
                           ELSE /\ k_pc' = "shooting"
                                /\ trace' = Append(trace, "screenshots")
                                /\ UNCHANGED <<bg, k_result, k_i>>
    /\ UNCHANGED <<files, routeVars, groqVars>>
    /\ UNCHANGED cfVars
    /\ UNCHANGED twoVars
    /\ UNCHANGED clientVars

\* the screenshots command ran: ffmpeg wrote frame-i.jpg for some of the
\* timemarks (all of them when nothing went wrong) and emitted 'end', whose
\* handler starts the readFile of frame 1, or 'error', whose handler starts
\* fs.rmdir
KfScreenshots ==
    /\ k_pc = "shooting"
    /\ \E written \in SUBSET (1..Len(timemarks)), event \in {"end", "error"} :
         /\ files' = files \cup { framePath(i) : i \in written }
         /\ k_pc' = IF event = "end" THEN "frames end" ELSE "frames error"
    /\ UNCHANGED <<bg, duration, durationType, timemarks, k_result, k_i, trace, routeVars, groqVars>>
    /\ UNCHANGED cfVars
    /\ UNCHANGED twoVars
    /\ UNCHANGED clientVars

\* the frame list as await fs.readFile(frame-i.jpg) leaves it: the frame is
\* pushed, and a frame that cannot be read is skipped with a warning
readFrame(frames, i, fsys) ==
    IF framePath(i) \in fsys THEN Append(frames, i) ELSE frames

\* the 'end' handler's loop: the readFile of frame i settles and the next
\* iteration starts the readFile of frame i + 1
KfReadFrame ==
    /\ k_pc = "frames end"
    /\ k_i + 1 < Len(timemarks)
    /\ k_result' = readFrame(k_result, k_i + 1, files)
    /\ k_i' = k_i + 1
    /\ UNCHANGED <<files, bg, k_pc, duration, durationType, timemarks, trace, routeVars, groqVars>>
    /\ UNCHANGED cfVars
    /\ UNCHANGED twoVars
    /\ UNCHANGED clientVars

\* the readFile of the last frame (i = actualFrameCount) settles: the loop
\* ends, the promise resolves with the frames read, and the finally block
\* starts one unlink per path of framePaths (a missing frame's path
\* included) behind the caller's back
KfScreenshotsEnd ==
    /\ k_pc = "frames end"
    /\ k_i + 1 = Len(timemarks)
    /\ k_result' = readFrame(k_result, k_i + 1, files)
    /\ k_i' = k_i + 1
    /\ bg' = bg \cup { BgUnlink(i) : i \in 1..Len(timemarks) }
    /\ k_pc' = "resolved"
    /\ UNCHANGED <<files, duration, durationType, timemarks, trace, routeVars, groqVars>>
    /\ UNCHANGED cfVars
    /\ UNCHANGED twoVars
    /\ UNCHANGED clientVars

\* the 'error' handler: framePaths is still empty, so nothing is unlinked;
\* the awaited rmdir fails quietly on a non-empty directory, then the
\* promise rejects
KfScreenshotsError ==
    /\ k_pc = "frames error"
    /\ files' = RmdirQuiet(files)
    /\ k_pc' = "rejected"
    /\ UNCHANGED <<bg, duration, durationType, timemarks, k_result, k_i, trace, routeVars, groqVars>>
    /\ UNCHANGED cfVars
    /\ UNCHANGED twoVars
    /\ UNCHANGED clientVars

\* a deletion that was started without being awaited completes: fs.rm, the
\* fs.rmdir of a skipped extraction, or one unlink of the 'end' handler's
\* finally block, in any order; when the last of these unlinks has settled,
\* Promise.all resolves and the finally block goes on to fs.rmdir(frameDir),
\* whose failure is caught
BgStep ==
    /\ \E op \in bg :
         IF op = BgRm
         THEN /\ files' = RmRecursive(files)
              /\ bg' = bg \ {op}
         ELSE IF op = BgRmdir
         THEN /\ files' = RmdirQuiet(files)
              /\ bg' = bg \ {op}
         ELSE /\ files' = files \ {framePath(op[2])}
              /\ bg' = IF bg \ {op} \subseteq {BgRm, BgRmdir}
                        THEN (bg \ {op}) \cup {BgRmdir}
                        ELSE bg \ {op}
    /\ UNCHANGED <<routeVars, trace, kfVars, groqVars>>
    /\ UNCHANGED cfVars
    /\ UNCHANGED twoVars
    /\ UNCHANGED clientVars

\* ---------------------------------------------------------- groqProcessor
\* what the model API may answer: an error, or a completion whose content is
\* a string (absent content behaves as the empty string)
Completion(t) == [ok |-> TRUE, content |-> t, message |-> <<>>]
ApiError(m) == [ok |-> FALSE, content |-> <<>>, message |-> m]

VisionResponses ==
    { Completion(<<>>), Completion(<<" ">>), Completion(<<"a scene">>),
      Completion(<<"[Error", " on the screen]">>), ApiError(<<"rate limit">>) }

TextResponses ==
    { Completion(<<>>), Completion(<<" ", "a summary", " ">>), ApiError(<<"rate limit">>) }

\* a frame is 0 (not a jpeg data URL) or the number of the frame file it encodes
IsJpegDataUrl(f) == f > 0

\* `Frames ${start + 1}-${Math.min(end, numFrames)}`
frameNumbers(start, end, numFrames) ==
    <<"Frames ">> \o NumStr(start + 1) \o <<"-">> \o NumStr(Min(end, numFrames))

numChunks(numFrames) == CeilDiv(numFrames, VISION_MODEL_IMAGE_LIMIT)

\* variant of currentChunkFrames whose slice runs one frame into the next chunk
overlappingChunkFrames(frames, i) ==
    Slice(frames, i * VISION_MODEL_IMAGE_LIMIT,
          i * VISION_MODEL_IMAGE_LIMIT + VISION_MODEL_IMAGE_LIMIT + 1)

\* base64Frames.slice(start, end) of chunk i (0-based)
currentChunkFrames(frames, i) ==
    Slice(frames, i * VISION_MODEL_IMAGE_LIMIT,
          i * VISION_MODEL_IMAGE_LIMIT + VISION_MODEL_IMAGE_LIMIT)

\* the image_url parts of the user message: frames that are not jpeg data
\* URLs are skipped
imageParts(chunk) == SelectSeqOf(chunk, [k \in 1..Len(chunk) |-> IsJpegDataUrl(chunk[k])], 1)

emptyPlaceholder(v) ==
    IF v = "multi" THEN <<"[Analysis for this segment was empty]">>
    ELSE <<"[No specific details", " extracted for this segment]">>

errorPlaceholder(v, message) ==
    IF v = "multi" THEN <<"[Error", " during analysis: ">> \o message \o <<"]">>
    ELSE <<"[Error", " during detail extraction: ">> \o message \o <<"]">>

\* the entry pushed on partialAnalyses when the vision call of a chunk settles
batchOutcome(v, chunkIndex, range, resp) ==
    [chunk |-> chunkIndex, frameRange |-> range,
     analysis |-> IF ~ resp.ok THEN errorPlaceholder(v, resp.message)
                  ELSE IF Trim(resp.content) # <<>> THEN Trim(resp.content)
                  ELSE emptyPlaceholder(v)]

\* the predicate of partialAnalyses.filter(...)
isSuccessful(v, pa) ==
    /\ ~ StartsWith(pa.analysis, <<"[Error">>)
    /\ ~ StartsWith(pa.analysis,
                    IF v = "multi" THEN <<"[Analysis for this segment was empty]">>
                    ELSE <<"[No specific details">>)

successfulAnalyses(v, pas) ==
    SelectSeqOf(pas, [k \in 1..Len(pas) |-> isSuccessful(v, pas[k])], 1)

\* one piece of combinedAnalyses / combinedVisualDetails
analysisSection(v, pa) ==
    <<IF v = "multi" THEN "\nAnalysis of " ELSE "\nDetails Extracted from ">>
      \o pa.frameRange \o <<":\n">> \o pa.analysis \o <<"\n---">>

RECURSIVE combinedAnalyses(_, _)
combinedAnalyses(v, pas) ==
    IF pas = <<>> THEN <<>>
    ELSE analysisSection(v, Head(pas)) \o combinedAnalyses(v, Tail(pas))

synthesisPrompt(v, transcript, pas) ==
    IF v = "multi"
    THEN <<"Generate a comprehensive summary [...] Full Audio Transcript:\n">> \o transcript
           \o <<"\n\nVisual Segment Analyses:">> \o combinedAnalyses(v, pas)
           \o <<"\n\nFinal Comprehensive Summary:">>
    ELSE <<"You are an AI technical writer [...] **Full Audio Transcript:**\n">> \o transcript
           \o <<"\n**Extracted Visual Details from Frame Segments:**\n">>
           \o combinedAnalyses(v, pas)
           \o <<"\n---\n**Generate the complete, professional Markdown documentation below:**">>

visionPrompt(v, chunkIndex, chunks, nFrames, range, transcript) ==
    <<IF v = "multi" THEN "This is analysis part " ELSE "This is part ">>
      \o NumStr(chunkIndex) \o <<" of ">> \o NumStr(chunks) \o <<" [...] ">>
      \o NumStr(nFrames) \o <<" frame(s) (">> \o range \o <<") [...] transcript:\n">>
      \o transcript

audioPrompt(transcript) ==
    <<"Please provide a concise summary of the following transcript:\n\n">> \o transcript

textOnlyPrompt(transcript) ==
    <<"You are an AI technical writer. [...] Transcript:\n">> \o transcript
      \o <<"\n\nGenerate the complete Markdown documentation file below:">>

VisionCall(v, i, frames, transcript) ==
    [model |-> VISION_MODEL, kind |-> "vision", chunk |-> i + 1,
     images |-> imageParts(currentChunkFrames(frames, i)),
     prompt |-> visionPrompt(v, i + 1, numChunks(Len(frames)),
                             Len(currentChunkFrames(frames, i)),
                             frameNumbers(i * VISION_MODEL_IMAGE_LIMIT,
                                          i * VISION_MODEL_IMAGE_LIMIT + VISION_MODEL_IMAGE_LIMIT,
                                          Len(frames)),
                             transcript)]

TextCall(kind, prompt) ==
    [model |-> TEXT_MODEL, kind |-> kind, chunk |-> 0, images |-> <<>>, prompt |-> prompt]

Returned(summary, modelUsed) ==
    [kind |-> "return", summary |-> summary, modelUsed |-> modelUsed, message |-> <<>>]
Threw(message) ==
    [kind |-> "throw", summary |-> <<>>, modelUsed |-> "", message |-> message]
NoResult == [kind |-> "none", summary |-> <<>>, modelUsed |-> "", message |-> <<>>]

\* groq.chat.completions.create(payload): the request leaves, the caller waits
Issue(call) ==
    /\ calls' = Append(calls, call)
    /\ inflight' = inflight \cup {Len(calls) + 1}

\* the awaited request, the last one issued, comes back with resp
Settle(resp) ==
    /\ inflight' = inflight \ {Len(calls)}
    /\ replies' = Append(replies, resp)

\* variant of finalResult without the `if (!finalSummary) throw` check: an
\* empty answer of the final synthesis call is returned as the summary
finalResultEmptyAccepted(v, resp) ==
    IF resp.ok
    THEN Returned(Trim(resp.content), TEXT_MODEL)
    ELSE Threw(<<IF v = "multi" THEN "Final summary synthesis failed: "
                 ELSE "Final Markdown documentation generation failed: ">>
               \o resp.message)

\* what summarizeVideoContent makes of the reply to the final synthesis call
finalResult(v, resp) ==
    IF resp.ok /\ Trim(resp.content) # <<>>
    THEN Returned(Trim(resp.content), TEXT_MODEL)
    ELSE Threw(<<IF v = "multi" THEN "Final summary synthesis failed: "
                 ELSE "Final Markdown documentation generation failed: ">>
               \o (IF resp.ok
                   THEN <<IF v = "multi"
                          THEN "Final synthesis resulted in an empty summary."
                          ELSE "Final Markdown generation resulted in an empty response.">>
                   ELSE resp.message))

\* variant of audioResult that treats an empty summary as an error, as the
\* final synthesis of summarizeVideoContent does
audioResultEmptyThrows(resp) ==
    IF ~ resp.ok
    THEN Threw(<<"Groq API request failed (", TEXT_MODEL, ") for text summary: ">> \o resp.message)
    ELSE IF Trim(resp.content) = <<>>
    THEN Threw(<<"Groq API request failed (", TEXT_MODEL, ") for text summary: ",
                 "Groq API returned empty summary for text.">>)
    ELSE Returned(Trim(resp.content), TEXT_MODEL)

\* what summarizeAudioContent makes of the reply to its request
audioResult(resp) ==
    IF ~ resp.ok
    THEN Threw(<<"Groq API request failed (", TEXT_MODEL, ") for text summary: ">> \o resp.message)
    ELSE IF Trim(resp.content) = <<>>
    THEN Returned(<<"[Summary generation failed or returned empty]">>, TEXT_MODEL)
    ELSE Returned(Trim(resp.content), TEXT_MODEL)

\* what generateDocFromTextOnly makes of the reply: every failure becomes a document
textOnlyResult(resp) ==
    IF resp.ok /\ Trim(resp.content) # <<>>
    THEN Returned(Trim(resp.content), TEXT_MODEL)
    ELSE Returned(<<"# Error\n\nFailed to generate documentation from transcript: ">>
                    \o (IF resp.ok THEN <<"Text-only doc generation was empty.">>
                        ELSE resp.message),
                  TEXT_MODEL)

\* summarizeAudioContent on a transcript that is empty after trimming
blankTranscriptResult ==
    Returned(<<"[No transcript provided or transcript was empty]">>, TEXT_MODEL)

\* variant of SvcStart that refuses an empty frame list instead of delegating
SvcStartFramesRequired ==
    /\ s_pc = "video"
    /\ IF s_transcript = <<>> \/ Len(s_frames) = 0
       THEN /\ s_pc' = "threw"
            /\ s_result' = Threw(<<"Transcript and frames are required.">>)
       ELSE /\ s_pc' = "loop"
            /\ UNCHANGED s_result
    /\ s_i' = 0
    /\ partialAnalyses' = <<>>
    /\ UNCHANGED <<variant, s_transcript, s_frames, calls, inflight, replies, audioInvocations>>
    /\ UNCHANGED <<routeVars, trace, fsVars, kfVars>>
    /\ UNCHANGED cfVars
    /\ UNCHANGED twoVars
    /\ UNCHANGED clientVars

\* summarizeVideoContent, from its entry to the chunk loop
SvcStart ==
    /\ s_pc = "video"
    /\ IF s_transcript = <<>>
       THEN /\ s_pc' = IF variant = "multi" THEN "threw" ELSE "returned"
            /\ s_result' = IF variant = "multi"
                           THEN Threw(<<"Transcript is required for video summarization.">>)
                           ELSE Returned(<<"# Error\n\nTranscript is required to generate documentation.">>,
                                         "N/A")
       ELSE /\ s_pc' = IF Len(s_frames) = 0
                       THEN (IF variant = "multi" THEN "audio" ELSE "textonly")
                       ELSE "loop"
            /\ UNCHANGED s_result
    /\ s_i' = 0
    /\ partialAnalyses' = <<>>
    /\ UNCHANGED <<variant, s_transcript, s_frames, calls, inflight, replies, audioInvocations>>
    /\ UNCHANGED <<routeVars, trace, fsVars, kfVars>>
    /\ UNCHANGED cfVars
    /\ UNCHANGED twoVars
    /\ UNCHANGED clientVars

\* variant of SvcIssueVision that sends the request of a chunk without
\* awaiting it (all chunks at once)
SvcIssueVisionNoAwait ==
    /\ s_pc = "loop"
    /\ s_i < numChunks(Len(s_frames))
    /\ Issue(VisionCall(variant, s_i, s_frames, s_transcript))
    /\ s_i' = s_i + 1
    /\ UNCHANGED <<s_pc, variant, s_transcript, s_frames, partialAnalyses, replies,
                   audioInvocations, s_result>>
    /\ UNCHANGED <<routeVars, trace, fsVars, kfVars>>
    /\ UNCHANGED cfVars
    /\ UNCHANGED twoVars
    /\ UNCHANGED clientVars

\* one turn of the chunk loop up to its await: the vision call of chunk s_i
SvcIssueVision ==
    /\ s_pc = "loop"
    /\ s_i < numChunks(Len(s_frames))
    /\ IF Len(currentChunkFrames(s_frames, s_i)) = 0
       THEN /\ s_i' = s_i + 1
            /\ UNCHANGED <<s_pc, calls, inflight>>
       ELSE /\ Issue(VisionCall(variant, s_i, s_frames, s_transcript))
            /\ s_pc' = "vision_wait"
            /\ UNCHANGED s_i
    /\ UNCHANGED <<variant, s_transcript, s_frames, partialAnalyses, replies, audioInvocations, s_result>>
    /\ UNCHANGED <<routeVars, trace, fsVars, kfVars>>
    /\ UNCHANGED cfVars
    /\ UNCHANGED twoVars
    /\ UNCHANGED clientVars

\* variant of SvcVisionSettle that leaves the loop at the first failed call
SvcVisionSettleAbortOnError ==
    /\ s_pc = "vision_wait"
    /\ \E resp \in VisionResponses :
         /\ partialAnalyses' =
              Append(partialAnalyses,
                     batchOutcome(variant, s_i + 1,
                                  frameNumbers(s_i * VISION_MODEL_IMAGE_LIMIT,
                                               s_i * VISION_MODEL_IMAGE_LIMIT + VISION_MODEL_IMAGE_LIMIT,
                                               Len(s_frames)),
                                  resp))
         /\ Settle(resp)
         /\ s_i' = IF resp.ok THEN s_i + 1 ELSE numChunks(Len(s_frames))
    /\ s_pc' = "loop"
    /\ UNCHANGED <<variant, s_transcript, s_frames, calls, audioInvocations, s_result>>
    /\ UNCHANGED <<routeVars, trace, fsVars, kfVars>>
    /\ UNCHANGED cfVars
    /\ UNCHANGED twoVars
    /\ UNCHANGED clientVars

\* variant of SvcVisionSettle that issues the call of a chunk a second time
\* when the first call of the run that fails is the first call of that chunk
SvcVisionSettleRetries ==
    /\ s_pc = "vision_wait"
    /\ \E resp \in VisionResponses :
         /\ Settle(resp)
         /\ IF ~ resp.ok /\ Len(calls) = s_i + 1
            THEN UNCHANGED <<partialAnalyses, s_i>>
            ELSE /\ partialAnalyses' =
                      Append(partialAnalyses,
                             batchOutcome(variant, s_i + 1,
                                          frameNumbers(s_i * VISION_MODEL_IMAGE_LIMIT,
                                                       s_i * VISION_MODEL_IMAGE_LIMIT + VISION_MODEL_IMAGE_LIMIT,
                                                       Len(s_frames)),
                                          resp))
                 /\ s_i' = s_i + 1
    /\ s_pc' = "loop"
    /\ UNCHANGED <<variant, s_transcript, s_frames, calls, audioInvocations, s_result>>
    /\ UNCHANGED <<routeVars, trace, fsVars, kfVars>>
    /\ UNCHANGED cfVars
    /\ UNCHANGED twoVars
    /\ UNCHANGED clientVars

\* the vision call settles; whatever its outcome, the loop goes on
SvcVisionSettle ==
    /\ s_pc = "vision_wait"
    /\ \E resp \in VisionResponses :
         /\ partialAnalyses' =
              Append(partialAnalyses,
                     batchOutcome(variant, s_i + 1,
                                  frameNumbers(s_i * VISION_MODEL_IMAGE_LIMIT,
                                               s_i * VISION_MODEL_IMAGE_LIMIT + VISION_MODEL_IMAGE_LIMIT,
                                               Len(s_frames)),
                                  resp))
         /\ Settle(resp)
    /\ s_i' = s_i + 1
    /\ s_pc' = "loop"
    /\ UNCHANGED <<variant, s_transcript, s_frames, calls, audioInvocations, s_result>>
    /\ UNCHANGED <<routeVars, trace, fsVars, kfVars>>
    /\ UNCHANGED cfVars
    /\ UNCHANGED twoVars
    /\ UNCHANGED clientVars

\* variant of SvcSynthesize that fails when no chunk gave an analysis
SvcSynthesizeHardFail ==
    /\ s_pc = "loop"
    /\ s_i >= numChunks(Len(s_frames))
    /\ IF Len(successfulAnalyses(variant, partialAnalyses)) = 0
       THEN /\ s_pc' = "threw"
            /\ s_result' = Threw(<<"No visual analysis could be generated.">>)
            /\ UNCHANGED <<calls, inflight>>
       ELSE /\ Issue(TextCall("final",
                              synthesisPrompt(variant, s_transcript,
                                              successfulAnalyses(variant, partialAnalyses))))
            /\ s_pc' = "final_wait"
            /\ UNCHANGED s_result
    /\ UNCHANGED <<variant, s_transcript, s_frames, s_i, partialAnalyses, replies, audioInvocations>>
    /\ UNCHANGED <<routeVars, trace, fsVars, kfVars>>
    /\ UNCHANGED cfVars
    /\ UNCHANGED twoVars
    /\ UNCHANGED clientVars

\* after the loop: no successful analysis -> transcript-only fallback,
\* otherwise the final synthesis request
SvcSynthesize ==
    /\ s_pc = "loop"
    /\ s_i >= numChunks(Len(s_frames))
    /\ IF Len(successfulAnalyses(variant, partialAnalyses)) = 0
       THEN /\ s_pc' = IF variant = "multi" THEN "audio" ELSE "textonly"
            /\ UNCHANGED <<calls, inflight>>
       ELSE /\ Issue(TextCall("final",
                              synthesisPrompt(variant, s_transcript,
                                              successfulAnalyses(variant, partialAnalyses))))
            /\ s_pc' = "final_wait"
    /\ UNCHANGED <<variant, s_transcript, s_frames, s_i, partialAnalyses, replies, audioInvocations, s_result>>
    /\ UNCHANGED <<routeVars, trace, fsVars, kfVars>>
    /\ UNCHANGED cfVars
    /\ UNCHANGED twoVars
    /\ UNCHANGED clientVars

\* variant of SvcFinalSettle that turns to the transcript-only function when
\* the final synthesis call fails or answers nothing
SvcFinalSettleFallsBack ==
    /\ s_pc = "final_wait"
    /\ \E resp \in TextResponses :
         /\ IF finalResult(variant, resp).kind = "return"
            THEN /\ s_result' = finalResult(variant, resp)
                 /\ s_pc' = "returned"
            ELSE /\ s_pc' = IF variant = "multi" THEN "audio" ELSE "textonly"
                 /\ UNCHANGED s_result
         /\ Settle(resp)
    /\ UNCHANGED <<variant, s_transcript, s_frames, s_i, partialAnalyses, calls, audioInvocations>>
    /\ UNCHANGED <<routeVars, trace, fsVars, kfVars>>
    /\ UNCHANGED cfVars
    /\ UNCHANGED twoVars
    /\ UNCHANGED clientVars

\* the final synthesis call settles: an error or an empty text is thrown
SvcFinalSettle ==
    /\ s_pc = "final_wait"
    /\ \E resp \in TextResponses :
         /\ s_result' = finalResult(variant, resp)
         /\ s_pc' = IF finalResult(variant, resp).kind = "return" THEN "returned" ELSE "threw"
         /\ Settle(resp)
    /\ UNCHANGED <<variant, s_transcript, s_frames, s_i, partialAnalyses, calls, audioInvocations>>
    /\ UNCHANGED <<routeVars, trace, fsVars, kfVars>>
    /\ UNCHANGED cfVars
    /\ UNCHANGED twoVars
    /\ UNCHANGED clientVars

\* summarizeAudioContent, from its entry to its await
AudioStart ==
    /\ s_pc = "audio"
    /\ audioInvocations' = audioInvocations + 1
    /\ IF s_transcript = <<>> \/ Trim(s_transcript) = <<>>
       THEN /\ s_pc' = "returned"
            /\ s_result' = blankTranscriptResult
            /\ UNCHANGED <<calls, inflight>>
       ELSE /\ Issue(TextCall("audio", audioPrompt(s_transcript)))
            /\ s_pc' = "audio_wait"
            /\ UNCHANGED s_result
    /\ UNCHANGED <<variant, s_transcript, s_frames, s_i, partialAnalyses, replies>>
    /\ UNCHANGED <<routeVars, trace, fsVars, kfVars>>
    /\ UNCHANGED cfVars
    /\ UNCHANGED twoVars
    /\ UNCHANGED clientVars

\* summarizeAudioContent after its await
AudioSettle ==
    /\ s_pc = "audio_wait"
    /\ \E resp \in TextResponses :
         /\ s_result' = audioResult(resp)
         /\ s_pc' = IF audioResult(resp).kind = "return" THEN "returned" ELSE "threw"
         /\ Settle(resp)
    /\ UNCHANGED <<variant, s_transcript, s_frames, s_i, partialAnalyses, calls, audioInvocations>>
    /\ UNCHANGED <<routeVars, trace, fsVars, kfVars>>
    /\ UNCHANGED cfVars
    /\ UNCHANGED twoVars
    /\ UNCHANGED clientVars

\* generateDocFromTextOnly (docs variant), up to its await
TextOnlyStart ==
    /\ s_pc = "textonly"
    /\ audioInvocations' = audioInvocations + 1
    /\ Issue(TextCall("textonly", textOnlyPrompt(s_transcript)))
    /\ s_pc' = "textonly_wait"
    /\ UNCHANGED <<variant, s_transcript, s_frames, s_i, partialAnalyses, replies, s_result>>
    /\ UNCHANGED <<routeVars, trace, fsVars, kfVars>>
    /\ UNCHANGED cfVars
    /\ UNCHANGED twoVars
    /\ UNCHANGED clientVars

\* generateDocFromTextOnly after its await: every failure becomes a document
TextOnlySettle ==
    /\ s_pc = "textonly_wait"
    /\ \E resp \in TextResponses :
         /\ s_result' = textOnlyResult(resp)
         /\ Settle(resp)
    /\ s_pc' = "returned"
    /\ UNCHANGED <<variant, s_transcript, s_frames, s_i, partialAnalyses, calls, audioInvocations>>
    /\ UNCHANGED <<routeVars, trace, fsVars, kfVars>>
    /\ UNCHANGED cfVars
    /\ UNCHANGED twoVars
    /\ UNCHANGED clientVars

\* ------------------------------------------------------- POST /summarize
MimeTypes == { <<"video/", "mp4">>, <<"audio/", "mpeg">>, <<"application/pdf">> }

\* VIDEO_SECONDS_PER_FRAME and MAX_VIDEO_FRAMES are positive integers
RouteIntervals == { Sec(1), Sec(DEFAULT_SECONDS_PER_FRAME) }
RouteMaxFrames == { 1, MaxRouteFrames }

\* what transcribeAudio may yield: a text, or an error
TranscribeResponses ==
    { Completion(<<>>), Completion(<<" ">>), Completion(<<"hello", " ", "world">>),
      ApiError(<<"stt unavailable">>) }

Ok200(res) == [status |-> 200, summary |-> res.summary, modelUsed |-> res.modelUsed]
Err500(message) == [status |-> 500, error |-> "Failed to process file.", details |-> message]
Err400 == [status |-> 400, error |-> "No file uploaded."]

\* the handler up to the try block
RouteReceive ==
    /\ pc = "request"
    /\ IF ~ reqFile
       THEN /\ responses' = Append(responses, Err400)
            /\ pc' = "done"
            /\ UNCHANGED filesToCleanup
       ELSE /\ filesToCleanup' = <<originalFilePath>>
            /\ pc' = "received"
            /\ UNCHANGED responses
    /\ audioPathForTranscription' = NoPath
    /\ isVideo' = FALSE
    /\ UNCHANGED <<reqFile, mimeType, tempAudioPath, base64Frames, transcriptText, summaryResult,
                   caught, cleanupCalls, frameExtractionConfig>>
    /\ UNCHANGED <<trace, fsVars, kfVars, groqVars>>
    /\ UNCHANGED cfVars
    /\ UNCHANGED twoVars
    /\ UNCHANGED clientVars

\* variant of RouteClassify that takes every upload that is not a video for
\* an audio file
RouteClassifyDefaultsToAudio ==
    /\ pc = "received"
    /\ IF StartsWith(mimeType, <<"video/">>)
       THEN /\ isVideo' = TRUE
            /\ pc' = "extractAudio"
            /\ trace' = Append(trace, "extractAudio")
            /\ UNCHANGED <<audioPathForTranscription, caught>>
       ELSE /\ isVideo' = FALSE
            /\ audioPathForTranscription' = originalFilePath
            /\ pc' = "transcribe"
            /\ UNCHANGED <<trace, caught>>
    /\ UNCHANGED <<reqFile, mimeType, filesToCleanup, tempAudioPath, base64Frames, transcriptText,
                   summaryResult, responses, cleanupCalls, frameExtractionConfig>>
    /\ UNCHANGED <<fsVars, kfVars, groqVars>>
    /\ UNCHANGED cfVars
    /\ UNCHANGED twoVars
    /\ UNCHANGED clientVars

\* variant of RouteClassify that sends an audio upload through the
\* extraction of a video
RouteClassifyExtractsAudioUploads ==
    /\ pc = "received"
    /\ IF StartsWith(mimeType, <<"video/">>) \/ StartsWith(mimeType, <<"audio/">>)
       THEN /\ isVideo' = TRUE
            /\ pc' = "extractAudio"
            /\ trace' = Append(trace, "extractAudio")
            /\ UNCHANGED <<audioPathForTranscription, caught>>
       ELSE /\ caught' = <<"Unsupported file type: ">> \o mimeType
            /\ pc' = "catch"
            /\ UNCHANGED <<isVideo, audioPathForTranscription, trace>>
    /\ UNCHANGED <<reqFile, mimeType, filesToCleanup, tempAudioPath, base64Frames, transcriptText,
                   summaryResult, responses, cleanupCalls, frameExtractionConfig>>
    /\ UNCHANGED <<fsVars, kfVars, groqVars>>
    /\ UNCHANGED cfVars
    /\ UNCHANGED twoVars
    /\ UNCHANGED clientVars

\* the classification by mimeType; a video starts extractAudio
RouteClassify ==
    /\ pc = "received"
    /\ IF StartsWith(mimeType, <<"video/">>)
       THEN /\ isVideo' = TRUE
            /\ pc' = "extractAudio"
            /\ trace' = Append(trace, "extractAudio")
            /\ UNCHANGED <<audioPathForTranscription, caught>>
       ELSE IF StartsWith(mimeType, <<"audio/">>)
       THEN /\ isVideo' = FALSE
            /\ audioPathForTranscription' = originalFilePath
            /\ pc' = "transcribe"
            /\ UNCHANGED <<trace, caught>>
       ELSE /\ caught' = <<"Unsupported file type: ">> \o mimeType
            /\ pc' = "catch"
            /\ UNCHANGED <<isVideo, audioPathForTranscription, trace>>
    /\ UNCHANGED <<reqFile, mimeType, filesToCleanup, tempAudioPath, base64Frames, transcriptText,
                   summaryResult, responses, cleanupCalls, frameExtractionConfig>>
    /\ UNCHANGED <<fsVars, kfVars, groqVars>>
    /\ UNCHANGED cfVars
    /\ UNCHANGED twoVars
    /\ UNCHANGED clientVars

\* variant of RouteAudioExtracted that calls extractKeyFrames without
\* awaiting it and goes on to the transcription
RouteAudioExtractedNoAwait ==
    /\ pc = "extractAudio"
    /\ files' = files \cup {audioPath}
    /\ tempAudioPath' = audioPath
    /\ filesToCleanup' = Append(filesToCleanup, audioPath)
    /\ audioPathForTranscription' = audioPath
    /\ k_pc' = "called"
    /\ pc' = "transcribe"
    /\ UNCHANGED <<reqFile, mimeType, isVideo, base64Frames, transcriptText, summaryResult, caught,
                   responses, cleanupCalls, frameExtractionConfig>>
    /\ UNCHANGED <<trace, bg, duration, durationType, timemarks, k_result, k_i, groqVars>>
    /\ UNCHANGED cfVars
    /\ UNCHANGED twoVars
    /\ UNCHANGED clientVars

\* extractAudio resolves: the audio file is registered, extractKeyFrames is called
RouteAudioExtracted ==
    /\ pc = "extractAudio"
    /\ files' = files \cup {audioPath}
    /\ tempAudioPath' = audioPath
    /\ filesToCleanup' = Append(filesToCleanup, audioPath)
    /\ audioPathForTranscription' = audioPath
    /\ k_pc' = "called"
    /\ pc' = "extractKeyFrames"
    /\ UNCHANGED <<reqFile, mimeType, isVideo, base64Frames, transcriptText, summaryResult, caught,
                   responses, cleanupCalls, frameExtractionConfig>>
    /\ UNCHANGED <<trace, bg, duration, durationType, timemarks, k_result, k_i, groqVars>>
    /\ UNCHANGED cfVars
    /\ UNCHANGED twoVars
    /\ UNCHANGED clientVars

\* catch (extractionError) of the inner try
ExtractionCatch(message) ==
    IF audioPathForTranscription = NoPath /\ tempAudioPath # NoPath
    THEN /\ audioPathForTranscription' = tempAudioPath
         /\ base64Frames' = <<>>
         /\ pc' = "transcribe"
         /\ UNCHANGED caught
    ELSE IF audioPathForTranscription = NoPath /\ tempAudioPath = NoPath
    THEN /\ caught' = <<"Critical video processing error: ">> \o message
         /\ pc' = "catch"
         /\ UNCHANGED <<audioPathForTranscription, base64Frames>>
    ELSE /\ base64Frames' = <<>>
         /\ pc' = "transcribe"
         /\ UNCHANGED <<audioPathForTranscription, caught>>

\* variant of RouteAudioFailed that goes on to transcribe the upload itself
\* when extractAudio rejects
RouteAudioFailedTranscribesUpload ==
    /\ pc = "extractAudio"
    /\ \E partial \in BOOLEAN : files' = IF partial THEN files \cup {audioPath} ELSE files
    /\ audioPathForTranscription' = originalFilePath
    /\ base64Frames' = <<>>
    /\ pc' = "transcribe"
    /\ UNCHANGED <<reqFile, mimeType, filesToCleanup, tempAudioPath, isVideo, transcriptText,
                   summaryResult, caught, responses, cleanupCalls, frameExtractionConfig>>
    /\ UNCHANGED <<trace, bg, kfVars, groqVars>>
    /\ UNCHANGED cfVars
    /\ UNCHANGED twoVars
    /\ UNCHANGED clientVars

\* variant of RouteAudioFailed in which the two extractions are independent:
\* extractKeyFrames is called although extractAudio rejected
RouteAudioFailedExtractsFrames ==
    /\ pc = "extractAudio"
    /\ \E partial \in BOOLEAN : files' = IF partial THEN files \cup {audioPath} ELSE files
    /\ k_pc' = "called"
    /\ pc' = "extractKeyFrames"
    /\ UNCHANGED <<reqFile, mimeType, filesToCleanup, audioPathForTranscription, tempAudioPath,
                   isVideo, base64Frames, transcriptText, summaryResult, caught, responses,
                   cleanupCalls, frameExtractionConfig>>
    /\ UNCHANGED <<trace, bg, duration, durationType, timemarks, k_result, k_i, groqVars>>
    /\ UNCHANGED cfVars
    /\ UNCHANGED twoVars
    /\ UNCHANGED clientVars

\* extractAudio rejects; ffmpeg may leave a partial output file behind
RouteAudioFailed ==
    /\ pc = "extractAudio"
    /\ \E partial \in BOOLEAN : files' = IF partial THEN files \cup {audioPath} ELSE files
    /\ ExtractionCatch(<<"ffmpeg audio extraction failed: ", "ffmpeg error">>)
    /\ UNCHANGED <<reqFile, mimeType, filesToCleanup, tempAudioPath, isVideo, transcriptText,
                   summaryResult, responses, cleanupCalls, frameExtractionConfig>>
    /\ UNCHANGED <<trace, bg, kfVars, groqVars>>
    /\ UNCHANGED cfVars
    /\ UNCHANGED twoVars
    /\ UNCHANGED clientVars

\* extractKeyFrames resolves
RouteFramesExtracted ==
    /\ pc = "extractKeyFrames"
    /\ k_pc = "resolved"
    /\ base64Frames' = k_result
    /\ pc' = "transcribe"
    /\ UNCHANGED <<reqFile, mimeType, filesToCleanup, audioPathForTranscription, tempAudioPath,
                   isVideo, transcriptText, summaryResult, caught, responses, cleanupCalls,
                   frameExtractionConfig>>
    /\ UNCHANGED <<trace, fsVars, kfVars, groqVars>>
    /\ UNCHANGED cfVars
    /\ UNCHANGED twoVars
    /\ UNCHANGED clientVars

\* extractKeyFrames rejects
RouteFramesFailed ==
    /\ pc = "extractKeyFrames"
    /\ k_pc = "rejected"
    /\ ExtractionCatch(<<"frame extraction failed">>)
    /\ UNCHANGED <<reqFile, mimeType, filesToCleanup, tempAudioPath, isVideo, transcriptText,
                   summaryResult, responses, cleanupCalls, frameExtractionConfig>>
    /\ UNCHANGED <<trace, fsVars, kfVars, groqVars>>
    /\ UNCHANGED cfVars
    /\ UNCHANGED twoVars
    /\ UNCHANGED clientVars

\* the check of audioPathForTranscription and the call of transcribeAudio
RouteTranscribe ==
    /\ pc = "transcribe"
    /\ IF audioPathForTranscription = NoPath
       THEN /\ caught' = <<"Could not determine audio file path for transcription.">>
            /\ pc' = "catch"
            /\ UNCHANGED trace
       ELSE /\ trace' = Append(trace, "transcribeAudio")
            /\ pc' = "transcribing"
            /\ UNCHANGED caught
    /\ UNCHANGED <<reqFile, mimeType, filesToCleanup, audioPathForTranscription, tempAudioPath,
                   isVideo, base64Frames, transcriptText, summaryResult, responses, cleanupCalls,
                   frameExtractionConfig>>
    /\ UNCHANGED <<fsVars, kfVars, groqVars>>
    /\ UNCHANGED cfVars
    /\ UNCHANGED twoVars
    /\ UNCHANGED clientVars

\* variant of RouteTranscribed that tests the transcript without trimming it
RouteTranscribedNoTrim ==
    /\ pc = "transcribing"
    /\ \E resp \in TranscribeResponses :
         IF ~ resp.ok
         THEN /\ caught' = <<"Failed to transcribe audio via Groq STT: ">> \o resp.message
              /\ pc' = "catch"
              /\ UNCHANGED <<transcriptText, s_pc, s_transcript, s_frames>>
         ELSE /\ transcriptText' = resp.content
              /\ IF resp.content = <<>>
                 THEN /\ caught' = <<"Transcription resulted in empty text.">>
                      /\ pc' = "catch"
                      /\ UNCHANGED <<s_pc, s_transcript, s_frames>>
                 ELSE /\ pc' = "summarize"
                      /\ s_pc' = IF isVideo /\ Len(base64Frames) > 0 THEN "video" ELSE "audio"
                      /\ s_transcript' = resp.content
                      /\ s_frames' = IF isVideo /\ Len(base64Frames) > 0 THEN base64Frames ELSE <<>>
                      /\ UNCHANGED caught
    /\ UNCHANGED <<reqFile, mimeType, filesToCleanup, audioPathForTranscription, tempAudioPath,
                   isVideo, base64Frames, summaryResult, responses, cleanupCalls,
                   frameExtractionConfig>>
    /\ UNCHANGED <<trace, fsVars, kfVars, variant, s_i, partialAnalyses, calls, inflight,
                   replies, audioInvocations, s_result>>
    /\ UNCHANGED cfVars
    /\ UNCHANGED twoVars
    /\ UNCHANGED clientVars

\* transcribeAudio settles; a non-blank transcript goes to one of the summarizers
RouteTranscribed ==
    /\ pc = "transcribing"
    /\ \E resp \in TranscribeResponses :
         IF ~ resp.ok
         THEN /\ caught' = <<"Failed to transcribe audio via Groq STT: ">> \o resp.message
              /\ pc' = "catch"
              /\ UNCHANGED <<transcriptText, s_pc, s_transcript, s_frames>>
         ELSE /\ transcriptText' = resp.content
              /\ IF resp.content = <<>> \/ Trim(resp.content) = <<>>
                 THEN /\ caught' = <<"Transcription resulted in empty text.">>
                      /\ pc' = "catch"
                      /\ UNCHANGED <<s_pc, s_transcript, s_frames>>
                 ELSE /\ pc' = "summarize"
                      /\ s_pc' = IF isVideo /\ Len(base64Frames) > 0 THEN "video" ELSE "audio"
                      /\ s_transcript' = resp.content
                      /\ s_frames' = IF isVideo /\ Len(base64Frames) > 0 THEN base64Frames ELSE <<>>
                      /\ UNCHANGED caught
    /\ UNCHANGED <<reqFile, mimeType, filesToCleanup, audioPathForTranscription, tempAudioPath,
                   isVideo, base64Frames, summaryResult, responses, cleanupCalls,
                   frameExtractionConfig>>
    /\ UNCHANGED <<trace, fsVars, kfVars, variant, s_i, partialAnalyses, calls, inflight,
                   replies, audioInvocations, s_result>>
    /\ UNCHANGED cfVars
    /\ UNCHANGED twoVars
    /\ UNCHANGED clientVars

\* the summarizer returns: res.json({summary, modelUsed})
RouteRespond ==
    /\ pc = "summarize"
    /\ s_pc = "returned"
    /\ summaryResult' = s_result
    /\ responses' = Append(responses, Ok200(s_result))
    /\ pc' = "finally"
    /\ UNCHANGED <<reqFile, mimeType, filesToCleanup, audioPathForTranscription, tempAudioPath,
                   isVideo, base64Frames, transcriptText, caught, cleanupCalls,
                   frameExtractionConfig>>
    /\ UNCHANGED <<trace, fsVars, kfVars, groqVars>>
    /\ UNCHANGED cfVars
    /\ UNCHANGED twoVars
    /\ UNCHANGED clientVars

\* the summarizer throws
RouteSummarizeFailed ==
    /\ pc = "summarize"
    /\ s_pc = "threw"
    /\ caught' = s_result.message
    /\ pc' = "catch"
    /\ UNCHANGED <<reqFile, mimeType, filesToCleanup, audioPathForTranscription, tempAudioPath,
                   isVideo, base64Frames, transcriptText, summaryResult, responses, cleanupCalls,
                   frameExtractionConfig>>
    /\ UNCHANGED <<trace, fsVars, kfVars, groqVars>>
    /\ UNCHANGED cfVars
    /\ UNCHANGED twoVars
    /\ UNCHANGED clientVars

\* catch (error): res.status(500).json(...)
RouteCatch ==
    /\ pc = "catch"
    /\ responses' = Append(responses, Err500(caught))
    /\ pc' = "finally"
    /\ UNCHANGED <<reqFile, mimeType, filesToCleanup, audioPathForTranscription, tempAudioPath,
                   isVideo, base64Frames, transcriptText, summaryResult, caught, cleanupCalls,
                   frameExtractionConfig>>
    /\ UNCHANGED <<trace, fsVars, kfVars, groqVars>>
    /\ UNCHANGED cfVars
    /\ UNCHANGED twoVars
    /\ UNCHANGED clientVars

\* finally: cleanupFiles(filesToCleanup) is called and runs up to its await:
\* an empty list returns at once, otherwise fs.unlink is started for every
\* registered path and the handler waits for all of them (CfUnlinkSettle)
RouteFinally ==
    /\ pc = "finally"
    /\ cleanupCalls' = cleanupCalls + 1
    /\ c_paths' = filesToCleanup
    /\ c_before' = files
    /\ c_errors' = {}
    /\ IF Len(filesToCleanup) = 0
       THEN /\ pc' = "done"
            /\ c_pc' = "returned"
            /\ c_attempted' = {}
            /\ c_pending' = {}
            /\ c_round' = c_round + 1
            /\ c_first' = IF c_round = 0 THEN files ELSE c_first
       ELSE /\ pc' = "cleaning"
            /\ c_pc' = "unlinking"
            /\ c_attempted' = { j \in 1..Len(filesToCleanup) : filesToCleanup[j] # NoPath }
            /\ c_pending' = { j \in 1..Len(filesToCleanup) : filesToCleanup[j] # NoPath }
            /\ UNCHANGED <<c_round, c_first>>
    /\ UNCHANGED <<reqFile, mimeType, filesToCleanup, audioPathForTranscription, tempAudioPath,
                   isVideo, base64Frames, transcriptText, summaryResult, caught, responses,
                   frameExtractionConfig>>
    /\ UNCHANGED <<trace, fsVars, kfVars, groqVars>>
    /\ UNCHANGED twoVars
    /\ UNCHANGED clientVars

\* every unlink of the route's cleanupFiles has settled: Promise.allSettled
\* resolves, cleanupFiles returns and the handler ends
RouteCleanedUp ==
    /\ pc = "cleaning"
    /\ c_pc = "unlinking"
    /\ c_pending = {}
    /\ c_pc' = "returned"
    /\ c_round' = c_round + 1
    /\ c_first' = IF c_round = 0 THEN files ELSE c_first
    /\ pc' = "done"
    /\ UNCHANGED <<reqFile, mimeType, filesToCleanup, audioPathForTranscription, tempAudioPath,
                   isVideo, base64Frames, transcriptText, summaryResult, caught, responses,
                   cleanupCalls, frameExtractionConfig>>
    /\ UNCHANGED <<c_paths, c_before, c_attempted, c_pending, c_errors>>
    /\ UNCHANGED <<trace, fsVars, kfVars, groqVars>>
    /\ UNCHANGED twoVars
    /\ UNCHANGED clientVars

\* --------------------------------------------------- cleanupFiles, stepwise
\* variant of CfCall that looks every path up before deleting it: the
\* look-up of a missing path throws out of cleanupFiles
CfCallStatsFirst ==
    /\ c_pc = "called"
    /\ c_before' = files
    /\ c_errors' = {}
    /\ IF \E j \in 1..Len(c_paths) : c_paths[j] # NoPath /\ c_paths[j] \notin files
       THEN /\ c_pc' = "threw"
            /\ c_attempted' = {}
            /\ c_pending' = {}
            /\ UNCHANGED <<c_round, c_first>>
       ELSE IF Len(c_paths) = 0
       THEN /\ c_pc' = "returned"
            /\ c_attempted' = {}
            /\ c_pending' = {}
            /\ c_round' = c_round + 1
            /\ c_first' = IF c_round = 0 THEN files ELSE c_first
       ELSE /\ c_pc' = "unlinking"
            /\ c_attempted' = { j \in 1..Len(c_paths) : c_paths[j] # NoPath }
            /\ c_pending' = { j \in 1..Len(c_paths) : c_paths[j] # NoPath }
            /\ UNCHANGED <<c_round, c_first>>
    /\ UNCHANGED <<c_paths, routeVars, trace, fsVars, kfVars, groqVars>>
    /\ UNCHANGED twoVars
    /\ UNCHANGED clientVars

\* cleanupFiles up to its await: an empty list returns at once, otherwise
\* filePaths.map starts fs.unlink for every non-null path
CfCall ==
    /\ c_pc = "called"
    /\ c_before' = files
    /\ c_errors' = {}
    /\ IF Len(c_paths) = 0
       THEN /\ c_pc' = "returned"
            /\ c_attempted' = {}
            /\ c_pending' = {}
            /\ c_round' = c_round + 1
            /\ c_first' = IF c_round = 0 THEN files ELSE c_first
       ELSE /\ c_pc' = "unlinking"
            /\ c_attempted' = { j \in 1..Len(c_paths) : c_paths[j] # NoPath }
            /\ c_pending' = { j \in 1..Len(c_paths) : c_paths[j] # NoPath }
            /\ UNCHANGED <<c_round, c_first>>
    /\ UNCHANGED <<c_paths, routeVars, trace, fsVars, kfVars, groqVars>>
    /\ UNCHANGED twoVars
    /\ UNCHANGED clientVars

\* variant of CfUnlinkSettle without the .catch: the rejection of one unlink
\* rejects cleanupFiles
CfUnlinkSettleUncaught ==
    /\ c_pc = "unlinking"
    /\ \E j \in c_pending :
         /\ c_pending' = c_pending \ {j}
         /\ IF UnlinkOk(files, c_paths[j])
            THEN /\ files' = files \ {c_paths[j]}
                 /\ UNCHANGED c_pc
            ELSE /\ c_pc' = "threw"
                 /\ UNCHANGED files
    /\ UNCHANGED <<c_paths, c_before, c_attempted, c_errors, c_round, c_first>>
    /\ UNCHANGED <<bg, routeVars, trace, kfVars, groqVars>>
    /\ UNCHANGED twoVars
    /\ UNCHANGED clientVars

\* one of the started unlinks settles, in any order: the file is gone, or the
\* failure is logged by .catch and the promise resolves all the same
CfUnlinkSettle ==
    /\ c_pc = "unlinking"
    /\ \E j \in c_pending :
         /\ c_pending' = c_pending \ {j}
         /\ IF UnlinkOk(files, c_paths[j])
            THEN /\ files' = files \ {c_paths[j]}
                 /\ UNCHANGED c_errors
            ELSE /\ c_errors' = c_errors \cup {j}
                 /\ UNCHANGED files
    /\ UNCHANGED <<c_pc, c_paths, c_before, c_attempted, c_round, c_first>>
    /\ UNCHANGED <<bg, routeVars, trace, kfVars, groqVars>>
    /\ UNCHANGED twoVars
    /\ UNCHANGED clientVars

\* await Promise.allSettled(cleanupPromises) is over: cleanupFiles returns
CfReturn ==
    /\ c_pc = "unlinking"
    /\ c_pending = {}
    /\ c_pc' = "returned"
    /\ c_round' = c_round + 1
    /\ c_first' = IF c_round = 0 THEN files ELSE c_first
    /\ UNCHANGED <<c_paths, c_before, c_attempted, c_pending, c_errors>>
    /\ UNCHANGED <<routeVars, trace, fsVars, kfVars, groqVars>>
    /\ UNCHANGED twoVars
    /\ UNCHANGED clientVars

\* the caller calls cleanupFiles again with the same filePaths
CfCallAgain ==
    /\ c_pc = "returned"
    /\ c_round < MaxCleanupCalls
    /\ c_pc' = "called"
    /\ UNCHANGED <<c_paths, c_before, c_attempted, c_pending, c_errors, c_round, c_first>>
    /\ UNCHANGED <<routeVars, trace, fsVars, kfVars, groqVars>>
    /\ UNCHANGED twoVars
    /\ UNCHANGED clientVars

\* ------------------------------------------- two runs in the same process
Runs == {1, 2}

\* path.extname(file.originalname) of the uploads: none, or the extension
Extensions == { <<>>, <<".mp4">>, <<".mp3">> }

\* multer's filename: fieldname + '-' + Date.now() + '-' + random + extname
storedName(t, rnd, ext) ==
    <<"mediaFile", "-">> \o NumStr(t) \o <<"-">> \o NumStr(rnd) \o ext

\* extractAudio: `${path.basename(videoPath)}.mp3` in the directory of the video
audioPathOf(videoPath) == videoPath \o <<".mp3">>

\* extractKeyFrames: `frames-${path.basename(videoPath)}-${Date.now()}`
frameDirOf(videoPath, now) == <<"frames-">> \o videoPath \o <<"-">> \o NumStr(now)

\* frame-%i.jpg in the folder of the screenshots
frameFileOf(dir, i) == dir \o <<"/", "frame-">> \o NumStr(i) \o <<".jpg">>

\* the paths of fsys that lie in directory dir, and dir itself
Under(fsys, dir) == { p \in fsys : p = dir \/ StartsWith(p, dir \o <<"/">>) }

\* the deletions of run r that have been started and have not settled:
\* <<run, call, path>> with call "rm" (fs.rm, recursive), "rmdir", "unlink"
\* (a frame, by the 'end' handler) or "cleanup" (an unlink of cleanupFiles)
PendingOf(r, call) == { op \in t_bg : op[1] = r /\ op[2] = call }

\* the classification of a run's upload by its mimetype
TwoClassify(r) ==
    /\ t_pc[r] = "received"
    /\ t_pc' = [t_pc EXCEPT ![r] =
                  IF StartsWith(t_upload[r].mimeType, <<"video/">>) THEN "extractAudio"
                  ELSE IF StartsWith(t_upload[r].mimeType, <<"audio/">>) THEN "transcribe"
                  ELSE "finally"]
    /\ UNCHANGED <<t_now, t_upload, t_registered, t_dir, t_count, t_i, t_fs, t_made, t_ops, t_bg>>
    /\ UNCHANGED oneRunVars
    /\ UNCHANGED clientVars

\* extractAudio of a run settles: ffmpeg read the upload and wrote (all or a
\* part of) the audio file; on success the route registers the path and calls
\* extractKeyFrames, which names frameDir after Date.now() and starts fs.mkdir
TwoExtractAudio(r) ==
    /\ t_pc[r] = "extractAudio"
    /\ \E outcome \in {"end", "error", "error after output"} :
         LET a == audioPathOf(t_upload[r].path)
             written == outcome # "error"
         IN  /\ t_fs' = IF written THEN t_fs \cup {a} ELSE t_fs
             /\ t_made' = IF written THEN t_made \cup {<<a, r>>} ELSE t_made
             /\ t_ops' = t_ops \cup {<<r, "read", t_upload[r].path>>}
                               \cup (IF written THEN {<<r, "write", a>>} ELSE {})
             /\ t_registered' = IF outcome = "end"
                                THEN [t_registered EXCEPT ![r] = Append(@, a)]
                                ELSE t_registered
             /\ t_dir' = IF outcome = "end"
                         THEN [t_dir EXCEPT ![r] = frameDirOf(t_upload[r].path, t_now)]
                         ELSE t_dir
             /\ t_pc' = [t_pc EXCEPT ![r] = IF outcome = "end" THEN "mkdir" ELSE "finally"]
    /\ UNCHANGED <<t_now, t_upload, t_count, t_i, t_bg>>
    /\ UNCHANGED oneRunVars
    /\ UNCHANGED clientVars

\* await fs.mkdir(frameDir) settles: it fails when the directory exists, and
\* then extractKeyFrames rejects before anything else is done
TwoMkdir(r) ==
    /\ t_pc[r] = "mkdir"
    /\ IF t_dir[r] \in t_fs
       THEN /\ t_pc' = [t_pc EXCEPT ![r] = "transcribe"]
            /\ UNCHANGED <<t_fs, t_made, t_ops>>
       ELSE /\ t_pc' = [t_pc EXCEPT ![r] = "probing"]
            /\ t_fs' = t_fs \cup {t_dir[r]}
            /\ t_made' = t_made \cup {<<t_dir[r], r>>}
            /\ t_ops' = t_ops \cup {<<r, "write", t_dir[r]>>}
    /\ UNCHANGED <<t_now, t_upload, t_registered, t_dir, t_count, t_i, t_bg>>
    /\ UNCHANGED oneRunVars
    /\ UNCHANGED clientVars

\* ffprobe read the upload. On an error (or without a duration, or with one
\* that is not positive) fs.rm of frameDir is started, not awaited, and
\* extractKeyFrames rejects; with the text 'N/A' for a duration the callback
\* throws at duration.toFixed, extractKeyFrames never settles and the handler
\* of the run waits for it for good; with an empty plan fs.rmdir of frameDir is started, not awaited,
\* and extractKeyFrames resolves without frames; otherwise the screenshots
\* command is started for a plan of actualFrameCount timemarks
TwoProbe(r) ==
    /\ t_pc[r] = "probing"
    /\ \/ /\ t_pc' = [t_pc EXCEPT ![r] = "transcribe"]
          /\ t_bg' = t_bg \cup {<<r, "rm", t_dir[r]>>}
          /\ UNCHANGED t_count
       \/ /\ t_pc' = [t_pc EXCEPT ![r] = "thrown"]
          /\ UNCHANGED <<t_bg, t_count>>
       \/ /\ t_pc' = [t_pc EXCEPT ![r] = "transcribe"]
          /\ t_bg' = t_bg \cup {<<r, "rmdir", t_dir[r]>>}
          /\ UNCHANGED t_count
       \/ \E actualFrameCount \in 1..MaxRunFrames :
            /\ t_pc' = [t_pc EXCEPT ![r] = "shooting"]
            /\ t_count' = [t_count EXCEPT ![r] = actualFrameCount]
            /\ UNCHANGED t_bg
    /\ t_ops' = t_ops \cup {<<r, "read", t_upload[r].path>>}
    /\ UNCHANGED <<t_now, t_upload, t_registered, t_dir, t_i, t_fs, t_made>>
    /\ UNCHANGED oneRunVars
    /\ UNCHANGED clientVars

\* ffmpeg read the upload and wrote some of the planned frame files into
\* frameDir, then emitted 'end', whose handler starts the readFile of
\* frame 1, or 'error', whose handler starts fs.rmdir
TwoScreenshots(r) ==
    /\ t_pc[r] = "shooting"
    /\ \E written \in SUBSET (1..t_count[r]), ok \in BOOLEAN :
         LET frames == { frameFileOf(t_dir[r], i) : i \in written }
         IN  /\ t_fs' = t_fs \cup frames
             /\ t_made' = t_made \cup { <<p, r>> : p \in frames }
             /\ t_ops' = t_ops \cup {<<r, "read", t_upload[r].path>>}
                               \cup { <<r, "write", p>> : p \in frames }
             /\ t_pc' = [t_pc EXCEPT ![r] = IF ok THEN "frames end" ELSE "frames error"]
    /\ UNCHANGED <<t_now, t_upload, t_registered, t_dir, t_count, t_i, t_bg>>
    /\ UNCHANGED oneRunVars
    /\ UNCHANGED clientVars

\* what await fs.readFile of frame i of run r adds to the operations: the
\* read of the file, or nothing when the file is not there (ENOENT, a warning)
TwoReadOps(r, i) ==
    IF frameFileOf(t_dir[r], i) \in t_fs
    THEN {<<r, "read", frameFileOf(t_dir[r], i)>>}
    ELSE {}

\* the 'end' handler's loop: the readFile of frame i settles and the next
\* iteration starts the readFile of frame i + 1
TwoReadFrame(r) ==
    /\ t_pc[r] = "frames end"
    /\ t_i[r] + 1 < t_count[r]
    /\ t_ops' = t_ops \cup TwoReadOps(r, t_i[r] + 1)
    /\ t_i' = [t_i EXCEPT ![r] = @ + 1]
    /\ UNCHANGED <<t_now, t_upload, t_pc, t_registered, t_dir, t_count, t_fs, t_made, t_bg>>
    /\ UNCHANGED oneRunVars
    /\ UNCHANGED clientVars

\* the readFile of the last frame (i = actualFrameCount) settles: the loop
\* ends, the promise resolves (the route goes on to transcription) and the
\* finally block starts one unlink per path of framePaths, the paths of the
\* frames that were planned, written or not
TwoFramesEnd(r) ==
    /\ t_pc[r] = "frames end"
    /\ t_i[r] + 1 = t_count[r]
    /\ t_ops' = t_ops \cup TwoReadOps(r, t_i[r] + 1)
    /\ t_i' = [t_i EXCEPT ![r] = @ + 1]
    /\ t_bg' = t_bg \cup { <<r, "unlink", frameFileOf(t_dir[r], i)>> : i \in 1..t_count[r] }
    /\ t_pc' = [t_pc EXCEPT ![r] = "transcribe"]
    /\ UNCHANGED <<t_now, t_upload, t_registered, t_dir, t_count, t_fs, t_made>>
    /\ UNCHANGED oneRunVars
    /\ UNCHANGED clientVars

\* a deletion extractKeyFrames started for run r settles: fs.rm removes
\* frameDir with everything in it; an unlink removes one frame, and after the
\* last of them the finally block starts fs.rmdir; fs.rmdir removes frameDir
\* if it is empty
TwoBgStep(r) ==
    /\ \E op \in t_bg :
         /\ op[1] = r
         /\ op[2] \in {"rm", "unlink", "rmdir"}
         /\ IF op[2] = "rm"
            THEN /\ t_fs' = t_fs \ Under(t_fs, op[3])
                 /\ t_ops' = t_ops \cup { <<r, "delete", p>> : p \in Under(t_fs, op[3]) }
                 /\ t_bg' = t_bg \ {op}
            ELSE IF op[2] = "unlink"
            THEN /\ t_fs' = t_fs \ {op[3]}
                 /\ t_ops' = t_ops \cup {<<r, "delete", op[3]>>}
                 /\ t_bg' = IF PendingOf(r, "unlink") = {op}
                            THEN (t_bg \ {op}) \cup {<<r, "rmdir", t_dir[r]>>}
                            ELSE t_bg \ {op}
            ELSE /\ t_fs' = IF Under(t_fs, op[3]) = {op[3]} THEN t_fs \ {op[3]} ELSE t_fs
                 /\ t_ops' = t_ops \cup {<<r, "delete", op[3]>>}
                 /\ t_bg' = t_bg \ {op}
    /\ UNCHANGED <<t_now, t_upload, t_pc, t_registered, t_dir, t_count, t_i, t_made>>
    /\ UNCHANGED oneRunVars
    /\ UNCHANGED clientVars

\* the 'error' handler: no frame is unlinked, the awaited rmdir removes an
\* empty frameDir, then extractKeyFrames rejects
TwoFramesError(r) ==
    /\ t_pc[r] = "frames error"
    /\ t_ops' = t_ops \cup {<<r, "delete", t_dir[r]>>}
    /\ t_fs' = IF Under(t_fs, t_dir[r]) = {t_dir[r]} THEN t_fs \ {t_dir[r]} ELSE t_fs
    /\ t_pc' = [t_pc EXCEPT ![r] = "transcribe"]
    /\ UNCHANGED <<t_now, t_upload, t_registered, t_dir, t_count, t_i, t_made, t_bg>>
    /\ UNCHANGED oneRunVars
    /\ UNCHANGED clientVars

\* transcribeAudio reads audioPathForTranscription: the extracted audio of a
\* video, the upload itself otherwise
TwoTranscribe(r) ==
    /\ t_pc[r] = "transcribe"
    /\ t_ops' = t_ops \cup {<<r, "read",
                              IF Len(t_registered[r]) >= 2 THEN t_registered[r][2]
                              ELSE t_upload[r].path>>}
    /\ t_pc' = [t_pc EXCEPT ![r] = "finally"]
    /\ UNCHANGED <<t_now, t_upload, t_registered, t_dir, t_count, t_i, t_fs, t_made, t_bg>>
    /\ UNCHANGED oneRunVars
    /\ UNCHANGED clientVars

\* finally: cleanupFiles(filesToCleanup) of the run starts one unlink per
\* registered path and waits for all of them
TwoFinally(r) ==
    /\ t_pc[r] = "finally"
    /\ t_bg' = t_bg \cup { <<r, "cleanup", t_registered[r][k]>> : k \in 1..Len(t_registered[r]) }
    /\ t_pc' = [t_pc EXCEPT ![r] = "cleaning"]
    /\ UNCHANGED <<t_now, t_upload, t_registered, t_dir, t_count, t_i, t_fs, t_made, t_ops>>
    /\ UNCHANGED oneRunVars
    /\ UNCHANGED clientVars

\* one unlink of the run's cleanupFiles settles, in any order; a failure is
\* logged and changes nothing
TwoUnlinkSettle(r) ==
    /\ t_pc[r] = "cleaning"
    /\ \E op \in PendingOf(r, "cleanup") :
         /\ t_fs' = t_fs \ {op[3]}
         /\ t_ops' = t_ops \cup {<<r, "delete", op[3]>>}
         /\ t_bg' = t_bg \ {op}
    /\ UNCHANGED <<t_now, t_upload, t_pc, t_registered, t_dir, t_count, t_i, t_made>>
    /\ UNCHANGED oneRunVars
    /\ UNCHANGED clientVars

\* every unlink of the run's cleanupFiles has settled: the handler ends
TwoCleanedUp(r) ==
    /\ t_pc[r] = "cleaning"
    /\ PendingOf(r, "cleanup") = {}
    /\ t_pc' = [t_pc EXCEPT ![r] = "done"]
    /\ UNCHANGED <<t_now, t_upload, t_registered, t_dir, t_count, t_i, t_fs, t_made, t_ops, t_bg>>
    /\ UNCHANGED oneRunVars
    /\ UNCHANGED clientVars

\* a millisecond passes
TwoTick ==
    /\ t_now < MaxClock
    /\ t_now' = t_now + 1
    /\ UNCHANGED <<t_upload, t_pc, t_registered, t_dir, t_count, t_i, t_fs, t_made, t_ops, t_bg>>
    /\ UNCHANGED oneRunVars
    /\ UNCHANGED clientVars

\* ---------------------------------------------------------- specifications
GroqIdle ==
    /\ s_i = 0
    /\ partialAnalyses = <<>>
    /\ calls = <<>>
    /\ inflight = {}
    /\ replies = <<>>
    /\ audioInvocations = 0
    /\ s_result = NoResult

KfIdle ==
    /\ duration = 0
    /\ durationType = "undefined"
    /\ timemarks = <<>>
    /\ k_result = <<>>
    /\ k_i = 0
    /\ bg = {}

TwoIdle ==
    /\ t_now = 0
    /\ t_upload = <<>>
    /\ t_pc = <<>>
    /\ t_registered = <<>>
    /\ t_dir = <<>>
    /\ t_count = <<>>
    /\ t_i = <<>>
    /\ t_fs = {}
    /\ t_made = {}
    /\ t_ops = {}
    /\ t_bg = {}

\* the hook before its first request
NoSummary == [isNull |-> TRUE, summary |-> <<>>, modelUsed |-> ""]

ClientIdle ==
    /\ loadingState = "idle"
    /\ uploadProgress = 0
    /\ result = NoSummary
    /\ error = <<>>
    /\ cancelTokenSourceRef = 0
    /\ renderedLoadingState = "idle"
    /\ requests = <<>>
    /\ warnings = 0

CfIdle ==
    /\ c_paths = <<>>
    /\ c_before = {}
    /\ c_attempted = {}
    /\ c_pending = {}
    /\ c_errors = {}
    /\ c_round = 0
    /\ c_first = {}

RouteIdle ==
    /\ filesToCleanup = <<>>
    /\ audioPathForTranscription = NoPath
    /\ tempAudioPath = NoPath
    /\ isVideo = FALSE
    /\ base64Frames = <<>>
    /\ transcriptText = <<>>
    /\ summaryResult = NoResult
    /\ caught = <<>>
    /\ responses = <<>>
    /\ cleanupCalls = 0
    /\ trace = <<>>

\* one request arrives at POST /summarize; multer has stored its file
Init ==
    /\ pc = "request"
    /\ reqFile \in BOOLEAN
    /\ mimeType \in (IF reqFile THEN MimeTypes ELSE {<<>>})
    /\ files = IF reqFile THEN {originalFilePath} ELSE {}
    /\ frameExtractionConfig \in [secondsPerFrame : RouteIntervals, maxFrames : RouteMaxFrames]
    /\ variant \in {"multi", "docs"}
    /\ RouteIdle
    /\ k_pc = "idle"
    /\ KfIdle
    /\ s_pc = "idle"
    /\ s_transcript = <<>>
    /\ s_frames = <<>>
    /\ GroqIdle
    /\ c_pc = "idle"
    /\ CfIdle
    /\ TwoIdle
    /\ ClientIdle

KfNext ==
    \/ KfMkdir \/ KfProbeError \/ KfProbe
    \/ KfScreenshots \/ KfReadFrame \/ KfScreenshotsEnd \/ KfScreenshotsError

GroqNext ==
    \/ SvcStart \/ SvcIssueVision \/ SvcVisionSettle \/ SvcSynthesize \/ SvcFinalSettle
    \/ AudioStart \/ AudioSettle \/ TextOnlyStart \/ TextOnlySettle

RouteNext ==
    \/ RouteReceive \/ RouteClassify \/ RouteAudioExtracted \/ RouteAudioFailed
    \/ RouteFramesExtracted \/ RouteFramesFailed \/ RouteTranscribe \/ RouteTranscribed
    \/ RouteRespond \/ RouteSummarizeFailed \/ RouteCatch \/ RouteFinally
    \/ CfUnlinkSettle \/ RouteCleanedUp

Next == RouteNext \/ KfNext \/ BgStep \/ GroqNext

Spec == Init /\ [][Next]_vars

\* every operation a run has started settles (ffmpeg and ffprobe end, a call
\* of the model API is answered or fails, an fs call settles) and the
\* continuation that waits for it is run
SpecLive == Spec /\ WF_vars(Next)

\* summarizeVideoContent called on its own with a transcript and a frame list
Transcripts == { <<>>, <<" ">>, <<"hello", " ", "world">> }

\* the frames of the documented scenario: a 3-minute video sampled with the
\* default policy (every 10 s, at most 30 frames)
ScenarioFrames ==
    [k \in 1..Len(planTimemarks(Sec(180), Sec(DEFAULT_SECONDS_PER_FRAME), DEFAULT_MAX_FRAMES))
       |-> k]

FrameLists ==
    { [k \in 1..n |-> k] : n \in 0..MaxFramesIn } \cup { <<1, 0, 3>> } \cup { ScenarioFrames }

InitSynth ==
    /\ pc = "direct"
    /\ reqFile = FALSE
    /\ mimeType = <<>>
    /\ files = {}
    /\ frameExtractionConfig = [secondsPerFrame |-> Sec(DEFAULT_SECONDS_PER_FRAME),
                                maxFrames |-> DEFAULT_MAX_FRAMES]
    /\ variant \in {"multi", "docs"}
    /\ RouteIdle
    /\ k_pc = "idle"
    /\ KfIdle
    /\ s_pc = "video"
    /\ s_transcript \in Transcripts
    /\ s_frames \in FrameLists
    /\ GroqIdle
    /\ c_pc = "idle"
    /\ CfIdle
    /\ TwoIdle
    /\ ClientIdle

SpecSynth == InitSynth /\ [][GroqNext]_vars

\* extractKeyFrames called on its own with a sampling policy
PlanIntervals == { 5, Sec(1), Sec(DEFAULT_SECONDS_PER_FRAME), Sec(60) }
PlanMaxFrames == { 1, 2, DEFAULT_MAX_FRAMES }

\* the policies of the calls: the default cap is combined with the intervals
\* from the default one on, the caps of 1 and 2 frames with every interval
PlanPolicies ==
    { p \in [secondsPerFrame : PlanIntervals, maxFrames : PlanMaxFrames] :
        p.maxFrames = DEFAULT_MAX_FRAMES => p.secondsPerFrame >= Sec(DEFAULT_SECONDS_PER_FRAME) }

InitPlan ==
    /\ pc = "direct"
    /\ reqFile = FALSE
    /\ mimeType = <<>>
    /\ files = {originalFilePath}
    /\ frameExtractionConfig \in PlanPolicies
    /\ variant = "multi"
    /\ RouteIdle
    /\ k_pc = "called"
    /\ KfIdle
    /\ s_pc = "idle"
    /\ s_transcript = <<>>
    /\ s_frames = <<>>
    /\ GroqIdle
    /\ c_pc = "idle"
    /\ CfIdle
    /\ TwoIdle
    /\ ClientIdle

PlanNext == KfNext \/ BgStep

SpecPlan == InitPlan /\ [][PlanNext]_vars

\* cleanupFiles called on its own, once and again, with a list of paths
\* (null entries included) on a file system that holds some of them
CleanupPaths == { originalFilePath, audioPath, frameDir }

PathLists == UNION { [1..n -> CleanupPaths \cup {NoPath}] : n \in 0..MaxPaths }

InitCleanup ==
    /\ pc = "direct"
    /\ reqFile = FALSE
    /\ mimeType = <<>>
    /\ files \in SUBSET CleanupPaths
    /\ frameExtractionConfig = [secondsPerFrame |-> Sec(DEFAULT_SECONDS_PER_FRAME),
                                maxFrames |-> DEFAULT_MAX_FRAMES]
    /\ variant = "multi"
    /\ RouteIdle
    /\ k_pc = "idle"
    /\ KfIdle
    /\ s_pc = "idle"
    /\ s_transcript = <<>>
    /\ s_frames = <<>>
    /\ GroqIdle
    /\ c_pc = "called"
    /\ c_paths \in PathLists
    /\ c_before = {}
    /\ c_attempted = {}
    /\ c_pending = {}
    /\ c_errors = {}
    /\ c_round = 0
    /\ c_first = {}
    /\ TwoIdle
    /\ ClientIdle

CleanupNext == CfCall \/ CfUnlinkSettle \/ CfReturn \/ CfCallAgain

SpecCleanup == InitCleanup /\ [][CleanupNext]_vars

\* two uploads stored by multer under different names, served concurrently:
\* a video whose original name has no extension or ends in .mp4, or an audio
\* file whose original name ends in .mp3, stored in the same millisecond
\* with the same or another random number
UploadNames ==
    { storedName(1, 7, ext) : ext \in Extensions } \cup { storedName(1, 8, <<".mp3">>) }

Uploads ==
    { u \in [path : UploadNames, mimeType : { <<"video/", "mp4">>, <<"audio/", "mpeg">> }] :
        StartsWith(u.mimeType, <<"audio/">>) <=> u.path[Len(u.path)] = ".mp3" }

InitTwo ==
    /\ pc = "direct"
    /\ reqFile = FALSE
    /\ mimeType = <<>>
    /\ files = {}
    /\ frameExtractionConfig = [secondsPerFrame |-> Sec(DEFAULT_SECONDS_PER_FRAME),
                                maxFrames |-> DEFAULT_MAX_FRAMES]
    /\ variant = "multi"
    /\ RouteIdle
    /\ k_pc = "idle"
    /\ KfIdle
    /\ s_pc = "idle"
    /\ s_transcript = <<>>
    /\ s_frames = <<>>
    /\ GroqIdle
    /\ c_pc = "idle"
    /\ CfIdle
    /\ t_now = 1
    /\ t_upload \in { u \in [Runs -> Uploads] : u[1].path # u[2].path }
    /\ t_pc = [r \in Runs |-> "received"]
    /\ t_registered = [r \in Runs |-> <<t_upload[r].path>>]
    /\ t_dir = [r \in Runs |-> <<>>]
    /\ t_count = [r \in Runs |-> 0]
    /\ t_i = [r \in Runs |-> 0]
    /\ t_fs = { t_upload[r].path : r \in Runs }
    /\ t_made = { <<t_upload[r].path, r>> : r \in Runs }
    /\ t_ops = {}
    /\ t_bg = {}
    /\ ClientIdle

TwoNext ==
    \/ \E r \in Runs :
         \/ TwoClassify(r) \/ TwoExtractAudio(r) \/ TwoMkdir(r) \/ TwoProbe(r)
         \/ TwoScreenshots(r) \/ TwoReadFrame(r) \/ TwoFramesEnd(r) \/ TwoBgStep(r) \/ TwoFramesError(r)
         \/ TwoTranscribe(r) \/ TwoFinally(r) \/ TwoUnlinkSettle(r) \/ TwoCleanedUp(r)
    \/ TwoTick

SpecTwo == InitTwo /\ [][TwoNext]_vars

\* ---------------------------------------------------- useSummarizationApi
\* Math.round(a / b) for a >= 0, b > 0
Round(a, b) == (2 * a + b) \div (2 * b)

\* the upload-progress events of a request: half of the body sent, all of it
\* sent, and an event without a total (progressEvent.total undefined)
UploadEvents ==
    { [loaded |-> 1, total |-> 2], [loaded |-> 2, total |-> 2], [loaded |-> 1, total |-> 0] }

\* how the POST may end when it is not cancelled: a 2xx response with the
\* route's body, an error response (with or without the route's body), no
\* response at all, or an error before the request was sent
ClientOutcomes ==
    { [kind |-> "response", status |-> 200, summary |-> <<"a summary">>, modelUsed |-> TEXT_MODEL,
       error |-> <<>>, details |-> <<>>],
      [kind |-> "error_response", status |-> 500, summary |-> <<>>, modelUsed |-> "",
       error |-> <<"Failed to process file.">>, details |-> <<"Transcription resulted in empty text.">>],
      [kind |-> "error_response", status |-> 502, summary |-> <<>>, modelUsed |-> "",
       error |-> <<>>, details |-> <<>>],
      [kind |-> "no_response", status |-> 0, summary |-> <<>>, modelUsed |-> "",
       error |-> <<>>, details |-> <<>>],
      [kind |-> "setup", status |-> 0, summary |-> <<>>, modelUsed |-> "",
       error |-> <<"invalid url">>, details |-> <<>>] }

\* errorMsg of the catch block for an error that is not a cancellation
errorMsg(o) ==
    IF o.kind = "error_response"
    THEN <<"Server Error (">> \o NumStr(o.status) \o <<"): ">>
           \o (IF o.error # <<>> THEN o.error ELSE <<"Unknown server error">>)
           \o (IF o.details # <<>> THEN <<" Details: ">> \o o.details ELSE <<>>)
    ELSE IF o.kind = "no_response"
    THEN <<"Network Error: Could not connect to the server.">>
    ELSE <<"Request Setup Error: ">> \o o.error

\* a request as axios.post has just sent it; seen is the loadingState its
\* callbacks close over
NewRequest(seen) == [seen |-> seen, loaded |-> 0, cancelled |-> FALSE, settled |-> FALSE]

Pending == { n \in 1..Len(requests) : ~ requests[n].settled }

\* submitRequest(file), up to its await; file is FALSE for a missing file.
\* The guard reads loadingState of the render that created the callback.
ClientSubmit ==
    /\ \E file \in BOOLEAN :
         IF ~ file \/ renderedLoadingState # "idle"
         THEN /\ warnings < MaxRequests
              /\ warnings' = warnings + 1
              /\ UNCHANGED <<loadingState, uploadProgress, result, error, cancelTokenSourceRef,
                             requests>>
         ELSE /\ Len(requests) < MaxRequests
              /\ result' = NoSummary
              /\ error' = <<>>
              /\ uploadProgress' = 0
              /\ loadingState' = "uploading"
              /\ cancelTokenSourceRef' = Len(requests) + 1
              /\ requests' = Append(requests, NewRequest(renderedLoadingState))
              /\ UNCHANGED warnings
    /\ UNCHANGED renderedLoadingState
    /\ UNCHANGED serverVars

\* onUploadProgress of request n
ClientProgress(n) ==
    /\ n \in Pending
    /\ ~ requests[n].cancelled
    /\ \E progressEvent \in UploadEvents :
         /\ progressEvent.loaded > requests[n].loaded
         /\ requests' = [requests EXCEPT ![n].loaded = progressEvent.loaded]
         /\ IF progressEvent.total # 0
            THEN LET percentCompleted == Round(progressEvent.loaded * 100, progressEvent.total)
                 IN  /\ uploadProgress' = percentCompleted
                     /\ loadingState' = IF percentCompleted = 100 /\ requests[n].seen = "uploading"
                                        THEN "processing"
                                        ELSE loadingState
            ELSE UNCHANGED <<uploadProgress, loadingState>>
    /\ UNCHANGED <<result, error, cancelTokenSourceRef, renderedLoadingState, warnings>>
    /\ UNCHANGED serverVars

\* cancelRequest() while a cancel token is held
ClientCancel ==
    /\ cancelTokenSourceRef # 0
    /\ loadingState' = "cancelling"
    /\ requests' = [requests EXCEPT ![cancelTokenSourceRef].cancelled = TRUE]
    /\ UNCHANGED <<uploadProgress, result, error, cancelTokenSourceRef, renderedLoadingState,
                   warnings>>
    /\ UNCHANGED serverVars

\* the awaited axios.post of request n settles: the rest of the try, the
\* catch and the finally block
ClientSettle(n) ==
    /\ n \in Pending
    /\ IF requests[n].cancelled
       THEN /\ error' = <<"Upload cancelled: ", "Upload cancelled by user.">>
            /\ result' = NoSummary
       ELSE \E o \in ClientOutcomes :
              IF o.kind = "response"
              THEN /\ result' = [isNull |-> FALSE, summary |-> o.summary, modelUsed |-> o.modelUsed]
                   /\ error' = <<>>
              ELSE /\ error' = errorMsg(o)
                   /\ result' = NoSummary
    /\ loadingState' = "idle"
    /\ uploadProgress' = 0
    /\ cancelTokenSourceRef' = 0
    /\ requests' = [requests EXCEPT ![n].settled = TRUE]
    /\ UNCHANGED <<renderedLoadingState, warnings>>
    /\ UNCHANGED serverVars

\* clearResultAndError()
ClientClear ==
    /\ result' = NoSummary
    /\ error' = <<>>
    /\ UNCHANGED <<loadingState, uploadProgress, cancelTokenSourceRef, renderedLoadingState,
                   requests, warnings>>
    /\ UNCHANGED serverVars

\* React renders the component again: useCallback([loadingState, ...]) makes
\* a new submitRequest that closes over the current loadingState
ClientRender ==
    /\ renderedLoadingState # loadingState
    /\ renderedLoadingState' = loadingState
    /\ UNCHANGED <<loadingState, uploadProgress, result, error, cancelTokenSourceRef, requests,
                   warnings>>
    /\ UNCHANGED serverVars

\* the page is loaded; the server side is not part of this specification
InitClient ==
    /\ pc = "direct"
    /\ reqFile = FALSE
    /\ mimeType = <<>>
    /\ files = {}
    /\ frameExtractionConfig = [secondsPerFrame |-> Sec(DEFAULT_SECONDS_PER_FRAME),
                                maxFrames |-> DEFAULT_MAX_FRAMES]
    /\ variant = "multi"
    /\ RouteIdle
    /\ k_pc = "idle"
    /\ KfIdle
    /\ s_pc = "idle"
    /\ s_transcript = <<>>
    /\ s_frames = <<>>
    /\ GroqIdle
    /\ c_pc = "idle"
    /\ CfIdle
    /\ TwoIdle
    /\ ClientIdle

ClientNext ==
    \/ ClientSubmit
    \/ \E n \in 1..MaxRequests : ClientProgress(n) \/ ClientSettle(n)
    \/ ClientCancel
    \/ ClientClear
    \/ ClientRender

SpecClient == InitClient /\ [][ClientNext]_vars

\* a request the user has aborted is settled by axios itself (the cancel
\* token rejects the promise of axios.post) and the continuation of its await
\* is then run; a request that is not aborted settles when the server answers
\* or the connection fails, which nothing on the client's side brings about:
\* axios.post is given no timeout and the hook starts no timer
SpecClientLive ==
    SpecClient /\ \A n \in 1..MaxRequests :
                    WF_vars(n \in Pending /\ requests[n].cancelled /\ ClientSettle(n))

\* ------------------------------------------------------------- properties
Terminal == s_pc \in {"returned", "threw"}

\* the vision call of chunk k was answered with a non-empty text
BatchSucceeded(k) == replies[k].ok /\ Trim(replies[k].content) # <<>>

\* every chunk of a non-empty frame list was analysed and every call failed
AllBatchesErrored ==
    /\ Len(s_frames) > 0
    /\ s_transcript # <<>>
    /\ Len(replies) >= (Len(s_frames) + 4) \div 5
    /\ \A k \in 1..((Len(s_frames) + 4) \div 5) : calls[k].kind = "vision" /\ ~ replies[k].ok

\* after n vision calls the function behaved as the transcript-only function
\* of its variant does on the same transcript
TranscriptOnlyOutcome(n) ==
    /\ audioInvocations = 1
    /\ IF variant = "multi"
       THEN IF Trim(s_transcript) = <<>>
            THEN Len(calls) = n /\ s_result = blankTranscriptResult
            ELSE /\ Len(calls) = n + 1
                 /\ Len(replies) = n + 1
                 /\ calls[n + 1] = TextCall("audio", audioPrompt(s_transcript))
                 /\ s_result = audioResult(replies[n + 1])
       ELSE /\ Len(calls) = n + 1
            /\ Len(replies) = n + 1
            /\ calls[n + 1] = TextCall("textonly", textOnlyPrompt(s_transcript))
            /\ s_result = textOnlyResult(replies[n + 1])

\* C1: once the run has ended (and the deletions it started have completed),
\* none of its temporary artifacts exists any more: upload, extracted audio,
\* frame images and frame directory are all removed.
C1_NoArtifactLeft == (pc = "done" /\ bg = {}) => files = {}

\* C2: for a request that carries a file, cleanupFiles is invoked exactly once
\* whatever the outcome: never before the finally block, never twice, and
\* every request received with a file comes to invoke it.
C2_CleanupExactlyOnce ==
    /\ [](cleanupCalls <= 1)
    /\ [](pc \notin {"cleaning", "done"} => cleanupCalls = 0)
    /\ (pc = "received" /\ reqFile) ~> (cleanupCalls = 1)

\* C3 as stated: when every batch ends in Error, summarizeVideoContent does
\* not raise and its result is the result of the transcript-only synthesis.
C3_NeverRaises ==
    (Terminal /\ AllBatchesErrored) =>
        /\ s_result.kind = "return"
        /\ TranscriptOnlyOutcome((Len(s_frames) + 4) \div 5)

\* C3 amended: when every batch ends in Error, the outcome of
\* summarizeVideoContent is the outcome of the transcript-only function on
\* the same transcript; it raises only when that function's own text-model
\* call fails.
C3_FallbackOutcome ==
    (Terminal /\ AllBatchesErrored) =>
        /\ TranscriptOnlyOutcome((Len(s_frames) + 4) \div 5)
        /\ s_result.kind = "throw" => ~ replies[Len(replies)].ok

C3_Witness ==
    /\ Terminal /\ AllBatchesErrored
    /\ variant = "multi"
    /\ Len(calls) = 4
    /\ s_result = Returned(<<"a summary">>, TEXT_MODEL)

\* C4: for n > 0 frames (and the transcript the function requires) exactly one
\* vision call is issued for each of the ceil(n/5) batches, in whatever way
\* the earlier batches ended.
C4_OneCallPerBatch ==
    (Terminal /\ Len(s_frames) > 0 /\ s_transcript # <<>>) =>
        LET n == (Len(s_frames) + 4) \div 5
        IN  /\ Len(calls) >= n
            /\ \A k \in 1..n : calls[k].kind = "vision" /\ calls[k].chunk = k
            /\ \A j \in (n + 1)..Len(calls) : calls[j].kind # "vision"

C4_Witness ==
    /\ Terminal
    /\ Len(s_frames) = 11
    /\ Len(calls) >= 3 /\ Len(replies) >= 3
    /\ ~ replies[1].ok
    /\ replies[2].ok /\ Trim(replies[2].content) = <<>>
    /\ calls[3].kind = "vision"

\* C5: for a video whose frame extraction fails after the audio was
\* extracted (extractKeyFrames rejects, or its ffprobe callback throws), the
\* run goes on to transcription with no frames, and with a non-blank
\* transcript and an answered text-model call it ends with a 200 response
\* produced by the transcript-only summarizer.
C5_FrameFailureDegrades ==
    /\ []((isVideo /\ k_pc \in {"rejected", "thrown"} /\ pc # "extractKeyFrames") =>
            /\ base64Frames = <<>>
            /\ audioPathForTranscription = audioPath
            /\ pc \in {"transcribing", "summarize", "catch", "finally", "cleaning", "done"}
                 => trace[Len(trace)] = "transcribeAudio"
            /\ \A j \in 1..Len(calls) : calls[j].kind = "audio"
            /\ (pc = "done" /\ Trim(transcriptText) # <<>> /\ Len(replies) = 1 /\ replies[1].ok)
                 => /\ Len(responses) = 1
                    /\ responses[1] = Ok200(audioResult(replies[1]))
                    /\ calls = <<TextCall("audio", audioPrompt(transcriptText))>>)
    /\ (isVideo /\ k_pc \in {"rejected", "thrown"})
         ~> (base64Frames = <<>> /\ \E j \in 1..Len(trace) : trace[j] = "transcribeAudio")

\* C6: for every duration d > 0 the number of planned timestamps never
\* exceeds maxFrames.
C6_PlanWithinCap ==
    duration > 0 => Len(timemarks) <= frameExtractionConfig.maxFrames

C6_Witness ==
    /\ k_pc = "shooting"
    /\ duration \div frameExtractionConfig.secondsPerFrame > frameExtractionConfig.maxFrames
    /\ Len(timemarks) = frameExtractionConfig.maxFrames

\* C7: for every duration d > 0.1 s the plan holds at least one timestamp,
\* whatever the interval.
C7_AtLeastOneFrame ==
    duration > Tenth => Len(timemarks) >= 1

C7_Witness ==
    /\ duration > Tenth
    /\ frameExtractionConfig.secondsPerFrame > duration + Half
    /\ Len(timemarks) = 1

\* C8: when some but not all batches succeed, the final synthesis request
\* contains the text of every successful batch (under its frame range) and
\* none of the placeholders recorded for the empty or failed batches.
C8_FinalPromptHasEverySuccess ==
    \A j \in 1..Len(calls) :
        (/\ calls[j].kind = "final"
         /\ \E k \in 1..(j - 1) : BatchSucceeded(k)
         /\ \E k \in 1..(j - 1) : ~ BatchSucceeded(k))
        => \A k \in 1..(j - 1) :
             IF BatchSucceeded(k)
             THEN Includes(calls[j].prompt,
                           partialAnalyses[k].frameRange \o <<":\n">> \o Trim(replies[k].content))
             ELSE ~ Includes(calls[j].prompt, partialAnalyses[k].analysis)

\* C9: with a non-empty transcript and an empty frame list
\* summarizeVideoContent takes the transcript-only path and issues no vision
\* call (and no final synthesis call).
C9_NoFramesTranscriptOnly ==
    (s_frames = <<>> /\ s_transcript # <<>>) =>
        /\ \A j \in 1..Len(calls) : calls[j].kind \notin {"vision", "final"}
        /\ partialAnalyses = <<>>
        /\ Terminal => TranscriptOnlyOutcome(0)

C9_Witness ==
    /\ Terminal
    /\ s_frames = <<>> /\ s_transcript # <<>>
    /\ Len(calls) = 1 /\ calls[1].kind = "audio"

\* C10: the batches are analysed in ascending order with at most one request
\* in flight: only the request issued last can be unanswered, the k-th
\* request is the vision call of batch k, and the one text-model call comes
\* after all of them.
C10_SequentialBatches ==
    /\ Cardinality(inflight) <= 1
    /\ inflight \subseteq {Len(calls)}
    /\ Len(replies) = Len(calls) - Cardinality(inflight)
    /\ \A j \in 1..Len(calls) :
         IF calls[j].kind = "vision"
         THEN calls[j].chunk = j
         ELSE /\ j = Len(calls)
              /\ calls[j].kind = "final" => j = ((Len(s_frames) + 4) \div 5) + 1

C10_Witness ==
    /\ Len(calls) = 4
    /\ calls[4].kind = "final"
    /\ inflight = {4}

\* C11: for n > 0 frames the batches partition the frame list in its order:
\* batch i (0-based) is the frames at indices [5i, min(5(i+1), n)), it holds
\* 1 to 5 frames, exactly 5 unless it is the last, every index lies in
\* exactly one batch, and the vision call of batch i carries the images of
\* that batch (its jpeg data URLs) in order.
C11_BatchesPartition ==
    Len(s_frames) > 0 =>
        LET n == Len(s_frames)
            m == (n + 4) \div 5
            batch(i) == currentChunkFrames(s_frames, i)
        IN  /\ \A i \in 0..(m - 1) :
                 /\ Len(batch(i)) = (IF 5 * (i + 1) < n THEN 5 * (i + 1) ELSE n) - 5 * i
                 /\ \A j \in 1..Len(batch(i)) : batch(i)[j] = s_frames[5 * i + j]
                 /\ Len(batch(i)) >= 1 /\ Len(batch(i)) <= 5
                 /\ i < m - 1 => Len(batch(i)) = 5
            /\ \A p \in 0..(n - 1) :
                 Cardinality({ i \in 0..(m - 1) :
                                 5 * i <= p /\ p < 5 * i + Len(batch(i)) }) = 1
            /\ \A k \in 1..Len(calls) :
                 calls[k].kind = "vision" =>
                    calls[k].images =
                       SelectSeq([j \in 1..((IF 5 * k < n THEN 5 * k ELSE n) - 5 * (k - 1))
                                    |-> s_frames[5 * (k - 1) + j]],
                                 LAMBDA f : f > 0)

C11_Witness ==
    /\ Len(s_frames) = 11
    /\ Len(calls) >= 3
    /\ calls[1].images = <<1, 2, 3, 4, 5>>
    /\ calls[2].images = <<6, 7, 8, 9, 10>>
    /\ calls[3].kind = "vision" /\ calls[3].images = <<11>>

\* every chunk of a non-empty frame list was analysed and every vision call
\* was answered with a non-empty text
AllBatchesSucceeded ==
    /\ Len(s_frames) > 0
    /\ s_transcript # <<>>
    /\ Len(replies) >= (Len(s_frames) + 4) \div 5
    /\ \A k \in 1..((Len(s_frames) + 4) \div 5) : calls[k].kind = "vision" /\ BatchSucceeded(k)

\* the batch texts of the first m replies, each under its own frame range
TaggedBatchTexts(m) ==
    [k \in 1..m |->
        [chunk |-> k,
         frameRange |-> <<"Frames ">> \o NumStr(5 * (k - 1) + 1) \o <<"-">>
                          \o NumStr(IF 5 * k < Len(s_frames) THEN 5 * k ELSE Len(s_frames)),
         analysis |-> Trim(replies[k].content)]]

\* C12: when every batch succeeds (18 frames in batches of 5,5,5,3 for
\* instance) the final synthesis is called exactly once, with the full
\* transcript and the texts of all batches in ascending frame-range order,
\* each under its own frame range, and the transcript-only function is not
\* called.
C12_AllSucceedOneSynthesis ==
    (Terminal /\ AllBatchesSucceeded) =>
        LET m == (Len(s_frames) + 4) \div 5
        IN  /\ Len(calls) = m + 1
            /\ calls[m + 1] = TextCall("final",
                                       synthesisPrompt(variant, s_transcript, TaggedBatchTexts(m)))
            /\ audioInvocations = 0

\* C13: for an upload declared audio/*, neither extractAudio nor
\* extractKeyFrames is started, transcribeAudio runs on the uploaded file
\* itself, and a non-blank transcript goes straight to summarizeAudioContent:
\* summarizeVideoContent is not entered and no vision-model call is made.
C13_AudioUploadTranscriptOnly ==
    StartsWith(mimeType, <<"audio/">>) =>
        /\ ~ isVideo
        /\ k_pc = "idle"
        /\ Len(trace) <= 1
        /\ \A j \in 1..Len(trace) : trace[j] = "transcribeAudio"
        /\ Len(trace) = 1 => audioPathForTranscription = originalFilePath
        /\ s_pc \notin {"video", "loop", "vision_wait", "final_wait", "textonly", "textonly_wait"}
        /\ partialAnalyses = <<>>
        /\ \A j \in 1..Len(calls) : calls[j].kind = "audio" /\ calls[j].model # VISION_MODEL
        /\ Trim(transcriptText) # <<>> =>
              \/ s_pc = "audio" /\ audioInvocations = 0 /\ calls = <<>>
              \/ /\ audioInvocations = 1
                 /\ calls = <<TextCall("audio", audioPrompt(transcriptText))>>

C13_Witness ==
    /\ StartsWith(mimeType, <<"audio/">>)
    /\ pc = "done"
    /\ trace = <<"transcribeAudio">>
    /\ audioInvocations = 1
    /\ Len(calls) = 1 /\ calls[1].kind = "audio"
    /\ Len(responses) = 1 /\ responses[1].status = 200

\* C15: cleanupFiles starts the deletion of every non-null path it is given
\* and never raises: a deletion that fails is logged, the other paths are
\* deleted all the same and the call returns normally.
C15_CleanupBestEffort ==
    /\ c_pc # "threw"
    /\ c_pc = "unlinking" =>
          c_attempted = { j \in 1..Len(c_paths) : c_paths[j] # NoPath }
    /\ (c_pc = "returned" /\ Len(c_paths) > 0) =>
          /\ c_attempted = { j \in 1..Len(c_paths) : c_paths[j] # NoPath }
          /\ c_pending = {}
          /\ \A j \in c_attempted : c_paths[j] # frameDir => c_paths[j] \notin files
          /\ files = cleanupFiles(c_before, c_paths)
          /\ Cardinality(c_errors) = cleanupFailures(c_before, c_paths)

C15_Witness ==
    /\ c_pc = "returned"
    /\ c_round = 1
    /\ c_paths = <<frameDir, NoPath, originalFilePath>>
    /\ c_before = {frameDir, originalFilePath, audioPath}
    /\ c_errors = {1}
    /\ files = {frameDir, audioPath}

\* C16: cleanupFiles is idempotent: once a first call has returned and none
\* of the paths exists any more, a further call with the same paths raises no
\* error and leaves the file system as the first call left it.
C16_CleanupIdempotent ==
    (c_round >= 1 /\ \A j \in 1..Len(c_paths) : c_paths[j] # NoPath => c_paths[j] \notin c_first)
        => /\ c_pc # "threw"
           /\ files = c_first
           /\ (c_round >= 2 /\ c_pc = "returned") => c_errors = c_attempted

C16_Witness ==
    /\ c_round = 2
    /\ c_pc = "returned"
    /\ c_paths = <<originalFilePath, audioPath>>
    /\ c_before = {frameDir}
    /\ c_first = {frameDir}
    /\ files = {frameDir}
    /\ c_errors = {1, 2}

\* C14: in both terminal states cleanupFiles has completed before the
\* result or the error is returned: whenever the HTTP response of a run has
\* been sent, the run's call of cleanupFiles is over.
C14_CleanupBeforeResponse ==
    \A j \in 1..Len(responses) : responses[j].status # 400 => c_pc = "returned"

\* C17 as stated: summarizeVideoContent raises only when the transcript-only
\* fallback was attempted and failed.
C17_FailsOnlyAfterFallback ==
    s_result.kind = "throw" =>
        /\ audioInvocations >= 1
        /\ Len(calls) >= 1 /\ Len(replies) = Len(calls)
        /\ calls[Len(calls)].kind \in {"audio", "textonly"}
        /\ ~ replies[Len(replies)].ok

\* C17 amended: summarizeVideoContent raises in three cases only: it was
\* given no transcript (no call is made); the final synthesis call failed or
\* answered nothing (the transcript-only fallback is not attempted); or no
\* batch gave a usable analysis (there may have been no frame at all) and the
\* call of the transcript-only function failed.
C17_FailureCauses ==
    s_result.kind = "throw" =>
        \/ /\ s_transcript = <<>>
           /\ calls = <<>>
           /\ audioInvocations = 0
        \/ /\ Len(calls) >= 2 /\ Len(replies) = Len(calls)
           /\ calls[Len(calls)].kind = "final"
           /\ ~ (replies[Len(replies)].ok /\ Trim(replies[Len(replies)].content) # <<>>)
           /\ audioInvocations = 0
        \/ /\ Len(calls) >= 1 /\ Len(replies) = Len(calls)
           /\ calls[Len(calls)].kind = "audio"
           /\ \A j \in 1..(Len(calls) - 1) : calls[j].kind = "vision"
           /\ successfulAnalyses(variant, partialAnalyses) = <<>>
           /\ audioInvocations = 1
           /\ ~ replies[Len(replies)].ok

C17_Witness ==
    /\ s_result.kind = "throw"
    /\ Len(s_frames) = 11
    /\ Len(calls) = 4 /\ calls[4].kind = "final"
    /\ Len(replies) = 4 /\ replies[4].ok /\ Trim(replies[4].content) = <<>>
    /\ audioInvocations = 0

\* C18: for a video upload whose audio extraction fails, the run ends Failed
\* with the extraction error: frame extraction and transcription are never
\* started and no model call is made.
C18_AudioExtractionFailureIsFatal ==
    (isVideo /\ pc # "extractAudio" /\ tempAudioPath = NoPath) =>
        /\ pc \in {"catch", "finally", "cleaning", "done"}
        /\ caught = <<"Critical video processing error: ",
                      "ffmpeg audio extraction failed: ", "ffmpeg error">>
        /\ trace = <<"extractAudio">>
        /\ k_pc = "idle"
        /\ s_pc = "idle" /\ audioInvocations = 0
        /\ calls = <<>>
        /\ pc \in {"finally", "cleaning", "done"} =>
              responses = <<[status |-> 500, error |-> "Failed to process file.",
                             details |-> caught]>>

C18_Witness ==
    /\ isVideo /\ tempAudioPath = NoPath
    /\ pc = "done"
    /\ trace = <<"extractAudio">>
    /\ Len(responses) = 1 /\ responses[1].status = 500

\* C19: when transcribeAudio yields an empty or whitespace-only transcript the
\* run ends Failed without any synthesis call, so that a summarizer is only
\* ever entered by the route with a transcript that is non-empty after
\* trimming.
C19_BlankTranscriptIsFatal ==
    /\ (/\ Len(trace) >= 1 /\ trace[Len(trace)] = "transcribeAudio"
        /\ pc # "transcribing"
        /\ Trim(transcriptText) = <<>>)
       => /\ pc \in {"catch", "finally", "cleaning", "done"}
          /\ transcriptText # <<>> => caught = <<"Transcription resulted in empty text.">>
          /\ s_pc = "idle" /\ audioInvocations = 0
          /\ calls = <<>>
          /\ pc \in {"finally", "cleaning", "done"} =>
                responses = <<[status |-> 500, error |-> "Failed to process file.",
                               details |-> caught]>>
    /\ (s_pc # "idle" \/ calls # <<>> \/ audioInvocations > 0)
       => /\ s_transcript = transcriptText
          /\ Trim(s_transcript) # <<>>

C19_Witness ==
    /\ pc = "done"
    /\ transcriptText = <<" ">>
    /\ isVideo /\ Len(base64Frames) > 0
    /\ calls = <<>>
    /\ Len(responses) = 1
    /\ responses[1].details = <<"Transcription resulted in empty text.">>

\* C20: an upload whose declared type starts with neither video/ nor audio/
\* ends Failed with the unsupported-type error, and no extraction, no
\* transcription and no model call is made for it.
C20_UnsupportedTypeRejected ==
    (/\ reqFile
     /\ ~ StartsWith(mimeType, <<"video/">>) /\ ~ StartsWith(mimeType, <<"audio/">>)
     /\ pc \notin {"request", "received"})
    => /\ pc \in {"catch", "finally", "cleaning", "done"}
       /\ caught = <<"Unsupported file type: ">> \o mimeType
       /\ trace = <<>>
       /\ k_pc = "idle" /\ ~ isVideo
       /\ s_pc = "idle" /\ audioInvocations = 0
       /\ calls = <<>>
       /\ pc \in {"finally", "cleaning", "done"} =>
             responses = <<[status |-> 500, error |-> "Failed to process file.",
                            details |-> caught]>>

C20_Witness ==
    /\ mimeType = <<"application/pdf">>
    /\ pc = "done"
    /\ trace = <<>>
    /\ responses = <<[status |-> 500, error |-> "Failed to process file.",
                      details |-> <<"Unsupported file type: ", "application/pdf">>]>>

\* C21: every run produces exactly one outcome: at most one response is ever
\* sent and every request comes to be answered; the response is either a
\* result (summary, modelUsed) of a summarizer that returned or an error
\* (error, details), never both; once an error has been caught the response
\* carries no summary.
C21_SingleOutcome ==
    /\ [](/\ Len(responses) <= 1
          /\ pc = "done" => Len(responses) = 1
          /\ \A j \in 1..Len(responses) :
               \/ /\ DOMAIN responses[j] = {"status", "summary", "modelUsed"}
                  /\ responses[j].status = 200
                  /\ caught = <<>>
                  /\ s_pc = "returned"
                  /\ responses[j].summary = s_result.summary
                  /\ responses[j].modelUsed = s_result.modelUsed
               \/ /\ DOMAIN responses[j] = {"status", "error", "details"}
                  /\ responses[j].status = 500
                  /\ caught # <<>>
                  /\ responses[j].details = caught
               \/ /\ DOMAIN responses[j] = {"status", "error"}
                  /\ responses[j].status = 400
                  /\ ~ reqFile)
    /\ (pc # "request") ~> (Len(responses) = 1)

\* the paths that derive from the upload of run r
OwnPath(r, p) ==
    \/ p = t_upload[r].path
    \/ p = t_upload[r].path \o <<".mp3">>
    \/ StartsWith(p, <<"frames-">> \o t_upload[r].path \o <<"-">>)

\* C22: two runs served concurrently for different uploads share no mutable
\* state: under any interleaving a run registers, reads, writes and deletes
\* only paths derived from its own upload, and never a path the other run
\* created.
C22_RunsIndependent ==
    /\ \A o \in t_ops :
         /\ OwnPath(o[1], o[3])
         /\ \A q \in Runs \ {o[1]} : <<o[3], q>> \notin t_made
    /\ \A r \in Runs : \A k \in 1..Len(t_registered[r]) :
         /\ OwnPath(r, t_registered[r][k])
         /\ \A q \in Runs \ {r} : <<t_registered[r][k], q>> \notin t_made
    /\ \A m \in t_made : \A n \in t_made : m[1] = n[1] => m[2] = n[2]

\* C23: when the duration is above 0.1 s and the first candidate timestamp
\* (one interval) exceeds duration + 0.5 s, as for d = 5 s and interval 10 s,
\* the plan is exactly one timestamp, at max(0.1, duration / 2).
C23_SingleMidpoint ==
    (duration > Tenth /\ frameExtractionConfig.secondsPerFrame > duration + Half) =>
        /\ Len(timemarks) = 1
        /\ 2 * timemarks[1] = (IF duration > 2 * Tenth THEN duration ELSE 2 * Tenth)

C23_Witness ==
    /\ k_pc = "shooting"
    /\ duration = Sec(5)
    /\ frameExtractionConfig.secondsPerFrame = Sec(10)
    /\ timemarks = <<50>>

\* C24: when floor(duration / interval) >= 1 the plan is exactly the
\* timestamps i * interval for i = 1 .. min(floor(duration / interval),
\* maxFrames), in that order; for d = 95 s, interval 10 s and maxFrames 30,
\* the 9 timestamps 10, 20, ..., 90.
C24_RegularPlan ==
    (duration > 0 /\ duration \div frameExtractionConfig.secondsPerFrame >= 1) =>
        LET q == duration \div frameExtractionConfig.secondsPerFrame
            n == IF q < frameExtractionConfig.maxFrames THEN q
                 ELSE frameExtractionConfig.maxFrames
        IN  timemarks = [i \in 1..n |-> i * frameExtractionConfig.secondsPerFrame]

C24_Witness ==
    /\ k_pc = "shooting"
    /\ duration = Sec(95)
    /\ frameExtractionConfig = [secondsPerFrame |-> Sec(10), maxFrames |-> 30]
    /\ timemarks = <<200, 400, 600, 800, 1000, 1200, 1400, 1600, 1800>>

\* C25: for an unknown duration (ffprobe fails, reports none or reports the
\* text 'N/A'), a zero or a negative one, the plan is empty: once the ffprobe
\* callback has run no timestamp has been generated, and no frame-extraction
\* command is issued, so that no frame is written.
C25_EmptyPlanOnBadDuration ==
    (/\ k_pc \in {"shooting", "frames end", "frames error", "resolved", "rejected", "thrown"}
     /\ durationType # "number" \/ duration <= 0) =>
        /\ timemarks = <<>>
        /\ k_pc \in {"rejected", "thrown"}
        /\ \A j \in 1..Len(trace) : trace[j] # "screenshots"
        /\ \A p \in files : ~ IsFrameFile(p)

C25_Witness ==
    /\ k_pc = "thrown"
    /\ durationType = "string"
    /\ timemarks = <<>>
    /\ frameDir \in files
    /\ bg = {}

\* C26: in every sampling plan the timestamps are strictly increasing, and
\* each is greater than 0 and at most the duration.
C26_PlanOrderedWithinDuration ==
    /\ \A i \in 1..Len(timemarks) : timemarks[i] > 0 /\ timemarks[i] <= duration
    /\ \A i \in 1..(Len(timemarks) - 1) : timemarks[i] < timemarks[i + 1]

C26_Witness ==
    /\ k_pc = "shooting"
    /\ Len(timemarks) = 1
    /\ frameExtractionConfig.secondsPerFrame > duration
    /\ timemarks[1] = duration

\* the stage of a run: 1 Received, 2 Extracting, 3 Transcribing,
\* 4 Synthesizing, 5 Completed or Failed
Stage(p) ==
    CASE p \in {"request", "received"} -> 1
      [] p \in {"extractAudio", "extractKeyFrames"} -> 2
      [] p \in {"transcribe", "transcribing"} -> 3
      [] p = "summarize" -> 4
      [] p \in {"catch", "finally", "cleaning", "done"} -> 5

\* what holds in each stage of a run
StageInvariant ==
    /\ Stage(pc) = 2 => isVideo
    /\ Stage(pc) <= 2 => /\ \A j \in 1..Len(trace) : trace[j] # "transcribeAudio"
                         /\ transcriptText = <<>>
    /\ Stage(pc) <= 3 => s_pc = "idle" /\ calls = <<>> /\ audioInvocations = 0
    /\ Stage(pc) <= 4 => responses = <<>>
    /\ (\E j \in 1..Len(trace) : trace[j] = "transcribeAudio")
          => k_pc \in {"idle", "resolved", "rejected"}
    /\ (s_pc # "idle" \/ calls # <<>>)
          => /\ \E j \in 1..Len(trace) : trace[j] = "transcribeAudio"
             /\ Trim(transcriptText) # <<>>
    /\ Cardinality({ j \in 1..Len(trace) : trace[j] = "extractAudio" }) <= 1
    /\ Cardinality({ j \in 1..Len(trace) : trace[j] = "transcribeAudio" }) <= 1

\* the steps between stages
StageStep ==
    /\ Stage(pc') >= Stage(pc)
    /\ Stage(pc') # Stage(pc) =>
          <<Stage(pc), Stage(pc')>> \in
             { <<1, 2>>, <<1, 3>>, <<1, 5>>, <<2, 3>>, <<2, 5>>, <<3, 4>>, <<3, 5>>, <<4, 5>> }
    /\ (Stage(pc) = 1 /\ Stage(pc') = 2) => isVideo'
    /\ (Stage(pc) = 1 /\ Stage(pc') = 3) => ~ isVideo'
    /\ Stage(pc) = 5 => /\ s_pc' = s_pc /\ calls' = calls /\ trace' = trace
                        /\ responses # <<>> => responses' = responses

\* C27: a run moves through its stages only in the order Received,
\* Extracting (video only), Transcribing, Synthesizing, then Completed or
\* Failed: transcription never starts before extraction has finished,
\* synthesis never starts before transcription has returned a non-empty
\* transcript, no stage is entered twice, and the final stage is never left.
C27_StageOrder == [](StageInvariant) /\ [][StageStep]_vars

C27_Witness ==
    /\ pc = "done"
    /\ trace = <<"extractAudio", "ffprobe", "screenshots", "transcribeAudio">>
    /\ Len(calls) >= 2 /\ calls[1].kind = "vision"
    /\ Len(responses) = 1 /\ responses[1].status = 200

\* C28: when at least one batch succeeded and the final synthesis call fails
\* or answers an empty text, summarizeVideoContent throws ("Final summary
\* synthesis failed: ..." / "Final Markdown documentation generation failed:
\* ..."), the final call is the last call it makes and the transcript-only
\* function is never invoked.
C28_FinalFailureRaises ==
    \A j \in 1..Len(replies) :
        ( /\ calls[j].kind = "final"
          /\ \E k \in 1..(j - 1) : BatchSucceeded(k)
          /\ ~ (replies[j].ok /\ Trim(replies[j].content) # <<>>) )
        => /\ s_pc = "threw"
           /\ s_result.kind = "throw"
           /\ StartsWith(s_result.message,
                         <<IF variant = "multi" THEN "Final summary synthesis failed: "
                           ELSE "Final Markdown documentation generation failed: ">>)
           /\ j = Len(calls)
           /\ audioInvocations = 0
           /\ \A i \in 1..Len(calls) : calls[i].kind \notin {"audio", "textonly"}

C28_Witness ==
    /\ s_pc = "threw"
    /\ Len(s_frames) = 11
    /\ Len(calls) = 4 /\ Len(replies) = 4
    /\ calls[4].kind = "final"
    /\ BatchSucceeded(2) /\ ~ BatchSucceeded(1)
    /\ ~ replies[4].ok
    /\ audioInvocations = 0

\* C29: a batch counts as successful, and its text is forwarded to the final
\* synthesis under its frame range, exactly when its vision call returned a
\* non-empty text, whatever that text says; a fallback to the transcript-only
\* function means that no vision call returned a non-empty text.
C29_SuccessIffNonEmptyReply ==
    /\ \A k \in 1..Len(partialAnalyses) :
         isSuccessful(variant, partialAnalyses[k]) <=> BatchSucceeded(k)
    /\ \A j \in 1..Len(calls) :
         calls[j].kind = "final" =>
           \A k \in 1..(j - 1) :
             BatchSucceeded(k) <=>
               Includes(calls[j].prompt,
                        partialAnalyses[k].frameRange \o <<":\n">> \o Trim(replies[k].content))
    /\ \A j \in 1..Len(calls) :
         calls[j].kind \in {"audio", "textonly"} =>
           \A k \in 1..Min(j - 1, Len(replies)) : ~ BatchSucceeded(k)

\* C30: when extractKeyFrames resolves, its result holds exactly one image
\* per planned timestamp, in the order of the timestamps: the image at
\* position k is the frame taken at the k-th timestamp (frame-k.jpg).
C30_OneImagePerTimestamp ==
    k_pc = "resolved" => k_result = [i \in 1..Len(timemarks) |-> i]

\* const framePaths = []: filled by the 'end' handler only, which pushes the
\* path of frame-i.jpg before it reads the file, for i = 1..actualFrameCount;
\* empty while ffmpeg runs and in the 'error' handler
framePaths ==
    IF k_pc \in {"frames end", "resolved"}
    THEN { framePath(i) : i \in 1..Min(k_i + 1, Len(timemarks)) }
    ELSE {}

\* C31: every path produced by extraction is recorded for deletion from the
\* moment it exists: the audio file in filesToCleanup, a frame file in
\* filesToCleanup or in framePaths, and the frame directory is either held by
\* the running extractKeyFrames, awaiting a deletion already started, or in
\* filesToCleanup.
C31_RegisteredOnCreation ==
    \A p \in files :
        /\ p = audioPath => \E j \in 1..Len(filesToCleanup) : filesToCleanup[j] = p
        /\ IsFrameFile(p) =>
             \/ p \in framePaths
             \/ \E j \in 1..Len(filesToCleanup) : filesToCleanup[j] = p
        /\ p = frameDir =>
             \/ k_pc \in {"probing", "shooting", "frames end", "frames error"}
             \/ bg # {}
             \/ \E j \in 1..Len(filesToCleanup) : filesToCleanup[j] = p

\* C32: nothing is retried. Within a run extractAudio, ffprobe, the
\* screenshots command and transcribeAudio are each started at most once, no
\* two vision calls are for the same batch, at most one text-model call is
\* made, and a failed call is final: a failed vision call is recorded as the
\* error outcome of its batch, and after a failed text-model call the
\* summarizer has ended (with an error for the final synthesis and for
\* summarizeAudioContent) without a further call.
C32_NoRetry ==
    /\ \A op \in {"extractAudio", "ffprobe", "screenshots", "transcribeAudio"} :
         Cardinality({ j \in 1..Len(trace) : trace[j] = op }) <= 1
    /\ \A i, j \in 1..Len(calls) :
         (i < j /\ calls[i].kind = "vision" /\ calls[j].kind = "vision")
            => calls[i].chunk # calls[j].chunk
    /\ Cardinality({ j \in 1..Len(calls) : calls[j].kind # "vision" }) <= 1
    /\ \A k \in 1..Len(replies) :
         ~ replies[k].ok =>
            IF calls[k].kind = "vision"
            THEN /\ Len(partialAnalyses) >= k
                 /\ partialAnalyses[k].chunk = calls[k].chunk
                 /\ partialAnalyses[k].analysis = errorPlaceholder(variant, replies[k].message)
            ELSE /\ k = Len(calls)
                 /\ Terminal
                 /\ calls[k].kind \in {"final", "audio"} => s_result.kind = "throw"
    /\ (pc \in {"catch", "finally", "cleaning", "done"} /\ caught # <<>> /\ responses # <<>>)
          => responses[1] = Err500(caught)

C32_Witness ==
    /\ pc = "done"
    /\ trace = <<"extractAudio", "ffprobe", "screenshots", "transcribeAudio">>
    /\ Len(calls) = 2 /\ Len(replies) = 2
    /\ calls[1].kind = "vision" /\ ~ replies[1].ok
    /\ calls[2].kind # "vision" /\ ~ replies[2].ok
    /\ Len(responses) = 1 /\ responses[1].status = 500

\* C33 as stated: there is a combination of duration, interval and cap (among
\* the durations ffprobe may report and the configurations considered, that
\* of the run at hand included) for which the loop that discards the
\* candidates beyond duration + 0.5 leaves a list that is not empty (so that
\* the midpoint fallback is not triggered) and shorter than the capped count.
C33_DiscardShortensPlan ==
    \E d \in { x \in Durations \cup {Sec(180)} : x > 0 },
       spf \in PlanIntervals \cup {frameExtractionConfig.secondsPerFrame},
       mf \in PlanMaxFrames \cup {frameExtractionConfig.maxFrames} :
        LET c == cappedFrameCount(d, spf, mf)
            marks == timemarksLoop(d, spf, c, 1)
        IN  /\ Len(marks) > 0
            /\ Len(marks) < c

\* C33 amended: for every duration, interval and cap the loop discards either
\* nothing or its only candidate (the interval of a video shorter than the
\* interval minus 0.5 s), and then the list is empty and the midpoint fallback
\* is triggered: a plan always has exactly as many timestamps as the capped
\* count.
C33_PlanHasCappedCount ==
    (k_pc \in {"shooting", "frames end", "frames error", "resolved"} /\ duration > 0) =>
        LET spf == frameExtractionConfig.secondsPerFrame
            c == cappedFrameCount(duration, spf, frameExtractionConfig.maxFrames)
            marks == timemarksLoop(duration, spf, c, 1)
        IN  /\ Len(marks) \in {0, c}
            /\ (Len(marks) = 0 /\ c > 0) =>
                  /\ c = 1
                  /\ spf > duration + Half
                  /\ timemarks = <<Max(Tenth, duration \div 2)>>
            /\ Len(timemarks) = c

C33_Witness ==
    /\ k_pc = "shooting"
    /\ duration = Sec(10) - 6
    /\ frameExtractionConfig = [secondsPerFrame |-> Sec(1), maxFrames |-> 2]
    /\ timemarks = <<Sec(1), Sec(2)>>

\* C34: summarizeVideoContent called with an empty or absent transcript
\* throws at once: no batch is formed, no model call is issued and the
\* transcript-only function is not called.
C34_EmptyTranscriptFailsFast ==
    (s_transcript = <<>> /\ s_pc \notin {"idle", "video"}) =>
        /\ s_pc = "threw"
        /\ s_result.kind = "throw"
        /\ calls = <<>>
        /\ partialAnalyses = <<>>
        /\ audioInvocations = 0

\* C35: for a duration d > 0.1 s below the interval but not more than 0.5 s
\* below it (interval - 0.5 <= d < interval) and a cap of at least one frame,
\* the plan is the single timestamp d: the interval clamped to the end of the
\* video, not the midpoint d/2.
C35_ClampedToEnd ==
    ( /\ duration > Tenth
      /\ frameExtractionConfig.maxFrames >= 1
      /\ frameExtractionConfig.secondsPerFrame - Half <= duration
      /\ duration < frameExtractionConfig.secondsPerFrame )
    => /\ timemarks = <<duration>>
       /\ timemarks # <<Max(Tenth, duration \div 2)>>

C35_Witness ==
    /\ k_pc = "resolved"
    /\ duration = Sec(10) - 6
    /\ frameExtractionConfig.secondsPerFrame = Sec(DEFAULT_SECONDS_PER_FRAME)
    /\ timemarks = <<Sec(10) - 6>>
    /\ k_result = <<1>>

\* C36: on the transcript-only path an empty answer of the text model never
\* raises: summarizeAudioContent returns the placeholder "[Summary generation
\* failed or returned empty]" with the text model's identifier, and the run
\* answers 200 with that placeholder as its summary; summarizeAudioContent
\* raises exactly when the call itself failed.
C36_EmptyAudioSummaryIsPlaceholder ==
    \A j \in 1..Len(replies) :
        calls[j].kind = "audio" =>
            /\ j = Len(calls)
            /\ (~ replies[j].ok) <=> s_result.kind = "throw"
            /\ replies[j].ok => s_pc = "returned" /\ s_result.modelUsed = TEXT_MODEL
            /\ (replies[j].ok /\ Trim(replies[j].content) = <<>>) =>
                  /\ s_result = Returned(<<"[Summary generation failed or returned empty]">>,
                                         TEXT_MODEL)
                  /\ caught = <<>>
                  /\ \A i \in 1..Len(responses) : responses[i] = Ok200(s_result)
                  /\ pc \in {"finally", "cleaning", "done"} => Len(responses) = 1

C36_Witness ==
    /\ pc = "done"
    /\ ~ isVideo
    /\ Len(calls) = 1 /\ calls[1].kind = "audio"
    /\ Len(replies) = 1 /\ replies[1].ok /\ Trim(replies[1].content) = <<>>
    /\ responses = <<[status |-> 200,
                      summary |-> <<"[Summary generation failed or returned empty]">>,
                      modelUsed |-> TEXT_MODEL]>>

\* C37: for a video upload extractKeyFrames is called only after extractAudio
\* has resolved and its file has been registered: as long as audio extraction
\* has not succeeded, and for good once it has failed, extractKeyFrames is not
\* entered, ffprobe and ffmpeg's screenshots are not started, and no frame
\* directory or frame file exists.
C37_FramesOnlyAfterAudio ==
    /\ (k_pc # "idle" \/ frameDir \in files \/ (\E p \in files : IsFrameFile(p))
          \/ (\E j \in 1..Len(trace) : trace[j] \in {"ffprobe", "screenshots"}))
         => /\ isVideo
            /\ tempAudioPath = audioPath
            /\ audioPathForTranscription = audioPath
            /\ \E j \in 1..Len(filesToCleanup) : filesToCleanup[j] = audioPath
            /\ Len(trace) >= 1 /\ trace[1] = "extractAudio"
    /\ (isVideo /\ pc # "extractAudio" /\ tempAudioPath = NoPath)
         => /\ k_pc = "idle"
            /\ duration = 0 /\ timemarks = <<>> /\ k_result = <<>>
            /\ bg = {}
            /\ files \subseteq {originalFilePath, audioPath}
            /\ base64Frames = <<>>

C37_Witness ==
    /\ isVideo /\ tempAudioPath = NoPath
    /\ pc = "done"
    /\ k_pc = "idle"
    /\ files = {audioPath}
    /\ cleanupCalls = 1

\* C38: when the upload progress of the pending request reaches 100 % while
\* loadingState is 'uploading', loadingState becomes 'processing', and it
\* leaves 'processing' only when a request settles (response or error) or a
\* cancellation is requested.
C38_UploadedMeansProcessing ==
    [][ /\ ( /\ loadingState = "uploading"
             /\ uploadProgress' = 100
             /\ \E n \in Pending : requests'[n].loaded > requests[n].loaded )
           => loadingState' = "processing"
        /\ (loadingState = "processing" /\ loadingState' # "processing")
           => (Pending' # Pending \/ loadingState' = "cancelling") ]_vars

\* C39: at most one request is pending at a time, and submitRequest invoked
\* while loadingState is not 'idle' posts nothing and leaves loadingState,
\* result, error and the cancel token as they are, whether or not the
\* component has rendered since the pending request was submitted.
C39_OneRequestAtATime ==
    /\ [](Cardinality(Pending) <= 1)
    /\ [][ loadingState # "idle" =>
             /\ Len(requests') = Len(requests)
             /\ warnings' # warnings =>
                  UNCHANGED <<loadingState, result, error, cancelTokenSourceRef, requests>> ]_vars

\* C40: every request that was posted settles at some point (with a response,
\* a server or network error, or the user's cancellation), and the step in
\* which a request settles leaves loadingState 'idle', uploadProgress 0 and no
\* cancel token, with exactly one of result and error set.
C40_EveryRequestSettles ==
    /\ \A n \in 1..MaxRequests : (n \in Pending) ~> (n <= Len(requests) /\ requests[n].settled)
    /\ [][ (\E n \in Pending : requests'[n].settled) =>
             /\ loadingState' = "idle"
             /\ uploadProgress' = 0
             /\ cancelTokenSourceRef' = 0
             /\ (result'.isNull) # (error' = <<>>) ]_vars

====
